---------------------------- MODULE Spec2Model ----------------------------
(***************************************************************************)
(* Lead Scout: LinkedIn X-Ray search orchestrator, result parser and run   *)
(* ledger.                                                                 *)
(*                                                                         *)
(* Strings are sequences of one-character strings, so that the parser's    *)
(* regular expressions, String.includes, toLowerCase and replace are       *)
(* computed character by character.  The non-ASCII characters of the       *)
(* source's character classes are written "middot", "bullet", "endash".    *)
(***************************************************************************)
EXTENDS Integers, Sequences, FiniteSets, TLC

(***************************************************************************)
(* Characters and JavaScript string primitives                             *)
(***************************************************************************)
LowerSeq == <<"a", "b", "c", "d", "e", "f", "g", "h", "i", "j", "k", "l", "m",
              "n", "o", "p", "q", "r", "s", "t", "u", "v", "w", "x", "y", "z">>

UpperSeq == <<"A", "B", "C", "D", "E", "F", "G", "H", "I", "J", "K", "L", "M",
              "N", "O", "P", "Q", "R", "S", "T", "U", "V", "W", "X", "Y", "Z">>

Lower == {LowerSeq[i] : i \in DOMAIN LowerSeq}

Upper == {UpperSeq[i] : i \in DOMAIN UpperSeq}

Digit == {"0", "1", "2", "3", "4", "5", "6", "7", "8", "9"}

\* \s of a JavaScript regular expression (the members that can occur here)
WhiteSpace == {" ", "\t", "\n", "\r"}

\* the characters "." does not match (no s flag is used anywhere)
LineTerminator == {"\n", "\r"}

\* \w of a JavaScript regular expression
WordChar == Lower \cup Upper \cup Digit \cup {"_"}

IndexOf(c, sq) == CHOOSE i \in DOMAIN sq : sq[i] = c

\* String.prototype.toLowerCase, one character
LowerChar(c) == IF c \in Upper THEN LowerSeq[IndexOf(c, UpperSeq)] ELSE c

UpperChar(c) == IF c \in Lower THEN UpperSeq[IndexOf(c, LowerSeq)] ELSE c

\* String.prototype.toLowerCase
toLowerCase(s) == [i \in DOMAIN s |-> LowerChar(s[i])]

\* s.substring(a - 1, b - 1): the characters at 1-based positions a .. b-1
Sub(s, a, b) == IF b <= a THEN << >> ELSE SubSeq(s, a, b - 1)

\* String.prototype.includes
Includes(s, needle) ==
    \E p \in 1..(Len(s) - Len(needle) + 1) : Sub(s, p, p + Len(needle)) = needle

RECURSIVE Join(_, _)
\* Array.prototype.join
Join(parts, sep) ==
    IF Len(parts) = 0 THEN << >>
    ELSE IF Len(parts) = 1 THEN parts[1]
    ELSE parts[1] \o sep \o Join(Tail(parts), sep)

(***************************************************************************)
(* A backtracking matcher for the regular expressions of the source.       *)
(* A pattern is a sequence of items; an item is a quantified character     *)
(* class, an anchor, a word boundary, a capture-group bracket or an        *)
(* alternation.  Alternatives and repetition counts are tried in the order *)
(* a backtracking engine tries them (greedy: longest first, lazy: shortest *)
(* first), so captures are the ones String.match returns.                  *)
(***************************************************************************)
Cls(set) == [neg |-> FALSE, set |-> set]

NotCls(set) == [neg |-> TRUE, set |-> set]

InClass(c, cl) == (c \in cl.set) # cl.neg

\* the class under the i flag
FoldCase(cl) ==
    [cl EXCEPT !.set = cl.set \cup {LowerChar(c) : c \in cl.set}
                              \cup {UpperChar(c) : c \in cl.set}]

Dot == NotCls(LineTerminator)

Space == Cls(WhiteSpace)

Item(k, cl, min, max, lazy, g, alts) ==
    [k |-> k, cl |-> cl, min |-> min, max |-> max, lazy |-> lazy, g |-> g,
     alts |-> alts]

\* max = -1: unbounded
One(cl) == Item("c", cl, 1, 1, FALSE, 0, << >>)

Star(cl) == Item("c", cl, 0, -1, FALSE, 0, << >>)

Plus(cl) == Item("c", cl, 1, -1, FALSE, 0, << >>)

PlusLazy(cl) == Item("c", cl, 1, -1, TRUE, 0, << >>)

AtLeast(n, cl) == Item("c", cl, n, -1, FALSE, 0, << >>)

Bol == Item("bol", Cls({}), 0, 0, FALSE, 0, << >>)

Eol == Item("eol", Cls({}), 0, 0, FALSE, 0, << >>)

WordBoundary == Item("wb", Cls({}), 0, 0, FALSE, 0, << >>)

Open(g) == Item("open", Cls({}), 0, 0, FALSE, g, << >>)

Close(g) == Item("close", Cls({}), 0, 0, FALSE, g, << >>)

Alt(alts) == Item("alt", Cls({}), 0, 0, FALSE, 0, alts)

\* (?:body)? , greedy
Opt(body) == Alt(<<body, << >> >>)

\* (?:body)* , greedy; body never matches the empty string
Rep(body) == Item("rep", Cls({}), 0, 0, FALSE, 0, <<body>>)

\* a literal string, case-sensitive
Lit(str) == <<Item("lit", Cls({}), 0, 0, FALSE, 0, str)>>

\* a literal string under the i flag
LitI(str) == <<Item("liti", Cls({}), 0, 0, FALSE, 0, str)>>

\* no pattern of the source has more than three capture groups
NoCaps == << <<0, 0>>, <<0, 0>>, <<0, 0>> >>

Fail == [ok |-> FALSE, start |-> 0, end |-> 0, caps |-> NoCaps]

Min(S) == CHOOSE n \in S : \A m \in S : n <= m

\* how many characters from position p on are in class cl, at most lim
Run(s, p, cl, lim) ==
    LET stops == {i \in p..Len(s) : ~InClass(s[i], cl)} \cup {Len(s) + 1}
        n     == Min(stops) - p
    IN  IF n < lim THEN n ELSE lim

IsWordAt(s, p) == p >= 1 /\ p <= Len(s) /\ s[p] \in WordChar

\* the items that consume no character
ZeroWidth(h) == h.k \in {"bol", "eol", "wb", "open", "close"}

\* whether the assertion h holds at position p
Asserts(h, s, p) ==
    CASE h.k = "bol" -> p = 1
      [] h.k = "eol" -> p = Len(s) + 1
      [] h.k = "wb"  -> IsWordAt(s, p - 1) # IsWordAt(s, p)
      [] OTHER       -> TRUE

\* whether the literal of item h is at position p
LitAt(h, s, p) ==
    /\ p + Len(h.alts) - 1 <= Len(s)
    /\ IF h.k = "liti"
       THEN toLowerCase(Sub(s, p, p + Len(h.alts))) = toLowerCase(h.alts)
       ELSE Sub(s, p, p + Len(h.alts)) = h.alts

\* the result of the first try that matched, in the engine's order: tries are
\* pairs <<rank, result>>, the lowest rank is tried first
FirstOk(tries) ==
    LET ok == {u \in tries : u[2].ok}
    IN  IF ok = {} THEN Fail
        ELSE (CHOOSE u \in ok : \A v \in ok : u[1] <= v[1])[2]

\* how many zero-width items the pattern re starts with
ZeroPrefix(re) ==
    Min({i \in 1..Len(re) : ~ZeroWidth(re[i])} \cup {Len(re) + 1}) - 1

\* the captures after the first z items of re, all zero-width, at position p
CapsAt(re, z, p, caps) ==
    [g \in 1..3 |->
        IF \E i \in 1..z : re[i].k = "open" /\ re[i].g = g THEN <<p, p>>
        ELSE IF \E i \in 1..z : re[i].k = "close" /\ re[i].g = g
        THEN <<caps[g][1], p>>
        ELSE caps[g]]

RECURSIVE MatchAt(_, _, _, _)
RECURSIVE MatchHead(_, _, _, _, _)
RECURSIVE MatchItem(_, _, _, _, _)
RECURSIVE MatchRun(_, _, _, _, _, _)
\* the pattern re matched against s from position p on
MatchAt(re, s, p, caps) == MatchHead(re, s, p, caps, ZeroPrefix(re))

\* the z leading zero-width items of re at p, then the first consuming item
MatchHead(re, s, p, caps, z) ==
    IF \E i \in 1..z : ~Asserts(re[i], s, p) THEN Fail
    ELSE IF z = Len(re)
    THEN [ok |-> TRUE, start |-> 0, end |-> p, caps |-> CapsAt(re, z, p, caps)]
    ELSE MatchItem(re[z + 1], Sub(re, z + 2, Len(re) + 1), s, p,
                   CapsAt(re, z, p, caps))

\* the consuming item h at p, then the rest t of the pattern: alternatives in
\* their order, a repetition greedily
MatchItem(h, t, s, p, caps) ==
    CASE h.k \in {"lit", "liti"} ->
           IF LitAt(h, s, p) THEN MatchAt(t, s, p + Len(h.alts), caps) ELSE Fail
      [] h.k = "alt" ->
           FirstOk({<<i, MatchAt(h.alts[i] \o t, s, p, caps)>> :
                      i \in DOMAIN h.alts})
      [] h.k = "rep" ->
           FirstOk({<<1, MatchAt(h.alts[1] \o <<h>> \o t, s, p, caps)>>,
                    <<2, MatchAt(t, s, p, caps)>>})
      [] OTHER ->
           MatchRun(h, t, s, p, caps,
                    Run(s, p, h.cl, IF h.max < 0 THEN Len(s) ELSE h.max))

\* the class item h taking h.min .. r characters, each count in the engine's
\* order (lazy: fewest first, greedy: most first)
MatchRun(h, t, s, p, caps, r) ==
    FirstOk({<<IF h.lazy THEN n ELSE r - n, MatchAt(t, s, p + n, caps)>> :
               n \in h.min..r})

\* the leftmost match of re in s starting at position p or later
SearchFrom(re, s, p) ==
    FirstOk({<<q, [MatchAt(re, s, q, NoCaps) EXCEPT !.start = q]>> :
               q \in p..(Len(s) + 1)})

\* String.prototype.match with a regular expression without the g flag
Match(s, re) == SearchFrom(re, s, 1)

\* RegExp.prototype.test
Test(re, s) == Match(s, re).ok

\* capture group g of a successful match
Group(s, m, g) == Sub(s, m.caps[g][1], m.caps[g][2])

\* s with the match m replaced by repl, s itself if m is no match
Splice(s, m, repl) ==
    IF m.ok THEN Sub(s, 1, m.start) \o repl \o Sub(s, m.end, Len(s) + 1)
    ELSE s

\* String.prototype.replace with a regular expression without the g flag
ReplaceFirst(s, re, repl) == Splice(s, Match(s, re), repl)

RECURSIVE ReplaceFrom(_, _, _, _)
RECURSIVE ReplaceNext(_, _, _, _, _)
\* s from position p on, every match of re replaced by repl
ReplaceFrom(s, re, repl, p) == ReplaceNext(s, re, repl, p, SearchFrom(re, s, p))

\* the same, m being the leftmost match at p or later
ReplaceNext(s, re, repl, p, m) ==
    IF ~m.ok THEN Sub(s, p, Len(s) + 1)
    ELSE IF m.end = m.start
    THEN \* an empty match: the engine steps one character on
         IF m.start > Len(s) THEN Sub(s, p, Len(s) + 1) \o repl
         ELSE Sub(s, p, m.start) \o repl \o <<s[m.start]>>
                \o ReplaceFrom(s, re, repl, m.start + 1)
    ELSE Sub(s, p, m.start) \o repl \o ReplaceFrom(s, re, repl, m.end)

\* String.prototype.replace with a regular expression with the g flag
ReplaceAll(s, re, repl) == ReplaceFrom(s, re, repl, 1)

RECURSIVE TrimLeft(_)
TrimLeft(s) ==
    IF Len(s) > 0 /\ s[1] \in WhiteSpace THEN TrimLeft(Tail(s)) ELSE s

RECURSIVE TrimRight(_)
TrimRight(s) ==
    IF Len(s) > 0 /\ s[Len(s)] \in WhiteSpace
    THEN TrimRight(Sub(s, 1, Len(s))) ELSE s

\* String.prototype.trim
Trim(s) == TrimRight(TrimLeft(s))

(***************************************************************************)
(* parser: one search-result item to zero or one lead                      *)
(***************************************************************************)
\* an optional value: absent (null, undefined), or present
None == << >>

Some(x) == <<x>>

Hyphen == One(Cls({"-"}))

\* /^(.+?)\s*-\s*(.+?)\s*-\s*(.+?)\s*\|\s*LinkedIn$/i
PRIMARY_PATTERN ==
    <<Bol, Open(1), PlusLazy(Dot), Close(1), Star(Space), Hyphen, Star(Space),
      Open(2), PlusLazy(Dot), Close(2), Star(Space), Hyphen, Star(Space),
      Open(3), PlusLazy(Dot), Close(3), Star(Space), One(Cls({"|"})),
      Star(Space)>> \o LitI(<<"L", "i", "n", "k", "e", "d", "I", "n">>) \o <<Eol>>

\* /^(.+?)\s*-\s*(.+?)\s*\|\s*LinkedIn$/i
FALLBACK_PATTERN ==
    <<Bol, Open(1), PlusLazy(Dot), Close(1), Star(Space), Hyphen, Star(Space),
      Open(2), PlusLazy(Dot), Close(2), Star(Space), One(Cls({"|"})),
      Star(Space)>> \o LitI(<<"L", "i", "n", "k", "e", "d", "I", "n">>) \o <<Eol>>

ProfileMarker == <<"l", "i", "n", "k", "e", "d", "i", "n", ".", "c", "o", "m", "/", "i", "n", "/">>

Ellipsis == <<".", ".", ".">>

Unknown == <<"U", "n", "k", "n", "o", "w", "n">>

\* item.pagemap?.cse_thumbnail?.[0]?.src, then item.pagemap?.cse_image?.[0]?.src
extractImageUrl(item) ==
    IF item.thumbnail # None /\ Len(item.thumbnail[1]) > 0 THEN item.thumbnail
    ELSE IF item.image # None /\ Len(item.image[1]) > 0 THEN item.image
    ELSE None

RegexSpecial ==
    {".", "*", "+", "?", "^", "$", "{", "}", "(", ")", "|", "[", "]", "\\"}

RECURSIVE escapeRegex(_)
\* str.replace(/[.*+?^${}()|[\]\\]/g, '\\$&')
escapeRegex(str) ==
    IF Len(str) = 0 THEN << >>
    ELSE (IF str[1] \in RegexSpecial THEN <<"\\", str[1]>> ELSE <<str[1]>>)
           \o escapeRegex(Tail(str))

RECURSIVE CompileI(_)
\* new RegExp(source, 'i') for a source made of literal characters, escaped
\* characters and dots
CompileI(src) ==
    IF Len(src) = 0 THEN << >>
    ELSE IF src[1] = "\\" /\ Len(src) >= 2
    THEN <<One(FoldCase(Cls({src[2]})))>> \o CompileI(Tail(Tail(src)))
    ELSE IF src[1] = "." THEN <<One(Dot)>> \o CompileI(Tail(src))
    ELSE <<One(FoldCase(Cls({src[1]})))>> \o CompileI(Tail(src))

\* new RegExp(`\\b${escapeRegex(lowerTopic)}\\b`, 'i').test(lowerText)
TopicMatches(lowerText, topic) ==
    Test(<<WordBoundary>> \o CompileI(escapeRegex(toLowerCase(topic)))
           \o <<WordBoundary>>, lowerText)

RECURSIVE FilterTopics(_, _)
\* topics.filter((topic) => regex.test(lowerText))
FilterTopics(lowerText, topics) ==
    IF Len(topics) = 0 THEN << >>
    ELSE (IF TopicMatches(lowerText, topics[1]) THEN <<topics[1]>> ELSE << >>)
           \o FilterTopics(lowerText, Tail(topics))

findMatchedTopics(text, topics) == FilterTopics(toLowerCase(text), topics)

RECURSIVE FilterIncluded(_, _)
\* topics.filter((topic) => lowerText.includes(topic.toLowerCase()))
FilterIncluded(lowerText, topics) ==
    IF Len(topics) = 0 THEN << >>
    ELSE (IF Includes(lowerText, toLowerCase(topics[1]))
          THEN <<topics[1]>> ELSE << >>)
           \o FilterIncluded(lowerText, Tail(topics))

\* findMatchedTopics of src/parser.ts and of the removing cleanup script
findMatchedTopicsIncludes(text, topics) ==
    FilterIncluded(toLowerCase(text), topics)

\* the source files that define a findMatchedTopics
ParserFiles == {"src/parser.ts", "unnamed/part_001"}

CleanupFiles == {"src/cleanup-leads.ts", "unnamed/part_000"}

MatcherFiles == ParserFiles \cup CleanupFiles

\* findMatchedTopics(text, topics) as the file defines it: with a regular
\* expression between word boundaries, or with String.includes
MatcherOf(file, text, topics) ==
    IF file \in {"unnamed/part_001", "src/cleanup-leads.ts"}
    THEN findMatchedTopics(text, topics)
    ELSE findMatchedTopicsIncludes(text, topics)

\* text.replace(/\s+/g, ' ').replace(/\.{2,}/g, '').replace(/^\s+|\s+$/g, '').trim()
cleanText(text) ==
    LET a == ReplaceAll(text, <<Plus(Space)>>, <<" ">>)
        b == ReplaceAll(a, <<AtLeast(2, Cls({"."}))>>, << >>)
        c == ReplaceAll(b, <<Alt(<< <<Bol, Plus(Space)>>, <<Plus(Space), Eol>> >>)>>,
                        << >>)
    IN  Trim(c)

\* detectTruncation looking for two dots
detectTwoDots(title) == Includes(title, <<".", ".">>)

\* title.includes('...')
detectTruncation(title) == Includes(title, Ellipsis)

\* confidence: detectTruncation(title) ? 'low' : 'high'
PrimaryConfidence(title) == IF detectTruncation(title) THEN "low" ELSE "high"

\* the fallback branch grading truncated titles like the primary branch
FallbackConfidenceTruncated(title) ==
    IF detectTruncation(title) THEN "low" ELSE "medium"

\* confidence: 'medium'
FallbackConfidence(title) == "medium"

Letter == Upper \cup Lower

CompanyChar == Cls(Letter \cup Digit \cup WhiteSpace \cup {"&", "."})

\* (?:\s*[\u00B7\u2022|,.]|\s+[-\u2013]|\s*$)
CompanyEnd ==
    Alt(<< <<Star(Space), One(Cls({"middot", "bullet", "|", ",", "."}))>>,
           <<Plus(Space), One(Cls({"-", "endash"}))>>,
           <<Star(Space), Eol>> >>)

\* /(?:^|\s)at\s+([A-Z][A-Za-z0-9\s&.]+?)(?:\s*[\u00B7\u2022|,.]|\s+[-\u2013]|\s*$)/
CompanyAt ==
    <<Alt(<< <<Bol>>, <<One(Space)>> >>)>> \o Lit(<<"a", "t">>)
      \o <<Plus(Space), Open(1), One(Cls(Upper)), PlusLazy(CompanyChar),
           Close(1), CompanyEnd>>

\* /(?:^|\s)@\s*([A-Z][A-Za-z0-9\s&.]+?)(?:\s*[\u00B7\u2022|,.]|\s+[-\u2013]|\s*$)/
CompanyAtSign ==
    <<Alt(<< <<Bol>>, <<One(Space)>> >>), One(Cls({"@"})), Star(Space),
      Open(1), One(Cls(Upper)), PlusLazy(CompanyChar), Close(1), CompanyEnd>>

\* /(?:works at|working at)\s+([A-Z][A-Za-z0-9\s&.]+?)(?:\s*[\u00B7\u2022|,.]|\s+[-\u2013]|\s*$)/i
CompanyWorksAt ==
    <<Alt(<<LitI(<<"w", "o", "r", "k", "s", " ", "a", "t">>), LitI(<<"w", "o", "r", "k", "i", "n", "g", " ", "a", "t">>)>>), Plus(Space), Open(1),
      One(FoldCase(Cls(Upper))), PlusLazy(FoldCase(CompanyChar)), Close(1),
      CompanyEnd>>

RECURSIVE FirstMatch(_, _)
\* for (const pattern of patterns) { match = snippet.match(pattern); if (match) ... }
FirstMatch(snippet, patterns) ==
    IF Len(patterns) = 0 THEN Unknown
    ELSE IF Test(patterns[1], snippet)
    THEN cleanText(Group(snippet, Match(snippet, patterns[1]), 1))
    ELSE FirstMatch(snippet, Tail(patterns))

extractCompanyFromSnippet(snippet) ==
    IF Len(snippet) = 0 THEN Unknown
    ELSE FirstMatch(snippet, <<CompanyAt, CompanyAtSign, CompanyWorksAt>>)

LocChar == Cls(Letter \cup WhiteSpace \cup {","})

Separator == One(Cls({"middot", "bullet", "|"}))

\* [A-Z][a-z]+(?:\s+[A-Z][a-z]+)*
CapWords ==
    <<One(Cls(Upper)), Plus(Cls(Lower)),
      Rep(<<Plus(Space), One(Cls(Upper)), Plus(Cls(Lower))>>)>>

Countries ==
    <<Lit(<<"G", "e", "r", "m", "a", "n", "y">>),
      Lit(<<"U", "S", "A">>),
      Lit(<<"U", "K">>),
      Lit(<<"U", "n", "i", "t", "e", "d", " ", "S", "t", "a", "t", "e", "s">>),
      Lit(<<"U", "n", "i", "t", "e", "d", " ", "K", "i", "n", "g", "d", "o", "m">>),
      Lit(<<"F", "r", "a", "n", "c", "e">>),
      Lit(<<"N", "e", "t", "h", "e", "r", "l", "a", "n", "d", "s">>),
      Lit(<<"S", "w", "i", "t", "z", "e", "r", "l", "a", "n", "d">>),
      Lit(<<"A", "u", "s", "t", "r", "i", "a">>),
      Lit(<<"S", "p", "a", "i", "n">>),
      Lit(<<"I", "t", "a", "l", "y">>),
      Lit(<<"C", "a", "n", "a", "d", "a">>),
      Lit(<<"A", "u", "s", "t", "r", "a", "l", "i", "a">>),
      Lit(<<"I", "n", "d", "i", "a">>),
      Lit(<<"S", "i", "n", "g", "a", "p", "o", "r", "e">>),
      Lit(<<"I", "r", "e", "l", "a", "n", "d">>),
      Lit(<<"S", "w", "e", "d", "e", "n">>),
      Lit(<<"D", "e", "n", "m", "a", "r", "k">>),
      Lit(<<"N", "o", "r", "w", "a", "y">>),
      Lit(<<"F", "i", "n", "l", "a", "n", "d">>),
      Lit(<<"B", "e", "l", "g", "i", "u", "m">>),
      Lit(<<"P", "o", "l", "a", "n", "d">>),
      Lit(<<"C", "z", "e", "c", "h", " ", "R", "e", "p", "u", "b", "l", "i", "c">>),
      Lit(<<"I", "s", "r", "a", "e", "l">>)>>

\* /^([A-Z][A-Za-z\s,]+(?:Area|Region|County)?)\s*[\u00B7\u2022|]/
LocStart ==
    <<Bol, Open(1), One(Cls(Upper)), Plus(LocChar),
      Opt(<<Alt(<<Lit(<<"A", "r", "e", "a">>), Lit(<<"R", "e", "g", "i", "o", "n">>), Lit(<<"C", "o", "u", "n", "t", "y">>)>>)>>),
      Close(1), Star(Space), Separator>>

\* /Location[:\s\u00B7]+([A-Z][A-Za-z\s,]+?)(?:\s*[\u00B7\u2022|]|\s*$)/i
LocLabel ==
    LitI(<<"L", "o", "c", "a", "t", "i", "o", "n">>)
      \o <<Plus(Cls(WhiteSpace \cup {":", "middot"})), Open(1),
           One(FoldCase(Cls(Upper))), PlusLazy(FoldCase(LocChar)), Close(1),
           Alt(<< <<Star(Space), Separator>>, <<Star(Space), Eol>> >>)>>

\* /\b([A-Z][a-z]+(?:\s+[A-Z][a-z]+)*,\s*(?:Germany|USA|...|Israel))\b/
LocCountry ==
    <<WordBoundary, Open(1)>> \o CapWords
      \o <<One(Cls({","})), Star(Space), Alt(Countries), Close(1), WordBoundary>>

\* /\b((?:Greater\s+)?[A-Z][a-z]+(?:\s+[A-Z][a-z]+)*\s+(?:Area|Metropolitan Area|Region))\b/
LocArea ==
    <<WordBoundary, Open(1), Opt(Lit(<<"G", "r", "e", "a", "t", "e", "r">>) \o <<Plus(Space)>>)>>
      \o CapWords
      \o <<Plus(Space),
           Alt(<<Lit(<<"A", "r", "e", "a">>), Lit(<<"M", "e", "t", "r", "o", "p", "o", "l", "i", "t", "a", "n", " ", "A", "r", "e", "a">>), Lit(<<"R", "e", "g", "i", "o", "n">>)>>),
           Close(1), WordBoundary>>

RECURSIVE FirstLocation(_, _)
FirstLocation(snippet, patterns) ==
    IF Len(patterns) = 0 THEN << >>
    ELSE IF Test(patterns[1], snippet)
    THEN cleanText(Group(snippet, Match(snippet, patterns[1]), 1))
    ELSE FirstLocation(snippet, Tail(patterns))

extractLocation(snippet) ==
    IF Len(snippet) = 0 THEN << >>
    ELSE FirstLocation(snippet, <<LocStart, LocLabel, LocCountry, LocArea>>)

\* a || b for strings
OrElse(a, b) == IF Len(a) > 0 THEN a ELSE b

\* the fields of a lead that do not depend on the title
CommonFields(item, queryUsed, topics, now) ==
    [location      |-> extractLocation(OrElse(item.snippet, << >>)),
     linkedinUrl   |-> item.link,
     snippet       |-> OrElse(item.snippet, << >>),
     htmlSnippet   |-> OrElse(item.htmlSnippet, OrElse(item.snippet, << >>)),
     imageUrl      |-> extractImageUrl(item),
     matchedTopics |->
         findMatchedTopics(item.title \o <<" ">> \o OrElse(item.snippet, << >>),
                           topics),
     queryUsed     |-> queryUsed,
     discoveredAt  |-> now]

\* companyPart.replace(/\s*\|.*$/, '').trim()
StripBar(companyPart) ==
    Trim(ReplaceFirst(companyPart,
                      <<Star(Space), One(Cls({"|"})), Star(Dot), Eol>>, << >>))

\* the lead of a title, primary being its match with PRIMARY_PATTERN and
\* fallback its match with FALLBACK_PATTERN
LeadOfTitle(item, primary, fallback, common) ==
    IF primary.ok
    THEN Some([name       |-> cleanText(Group(item.title, primary, 1)),
               role       |-> cleanText(Group(item.title, primary, 2)),
               company    |-> cleanText(StripBar(Group(item.title, primary, 3))),
               confidence |-> PrimaryConfidence(item.title)] @@ common)
    ELSE IF fallback.ok
    THEN Some([name       |-> cleanText(Group(item.title, fallback, 1)),
               role       |-> cleanText(Group(item.title, fallback, 2)),
               company    |-> extractCompanyFromSnippet(item.snippet),
               confidence |-> FallbackConfidence(item.title)] @@ common)
    ELSE None

\* parseSearchResult without the test of the link
parseAnyLink(item, queryUsed, topics, now) ==
    LeadOfTitle(item, Match(item.title, PRIMARY_PATTERN),
                Match(item.title, FALLBACK_PATTERN),
                CommonFields(item, queryUsed, topics, now))

\* Some(lead), or None for null
parseSearchResult(item, queryUsed, topics, now) ==
    IF ~Includes(item.link, ProfileMarker) THEN None
    ELSE LeadOfTitle(item, Match(item.title, PRIMARY_PATTERN),
                     Match(item.title, FALLBACK_PATTERN),
                     CommonFields(item, queryUsed, topics, now))

\* PushLead leaving the loop at the first item that gave no lead
PushLeadStops(lead, requireTopicMatch, rest) ==
    IF lead = None THEN << >>
    ELSE IF requireTopicMatch /\ Len(lead[1].matchedTopics) = 0 THEN rest
    ELSE <<lead[1]>> \o rest

\* PushLead without the test of requireTopicMatch
PushLeadAnyTopics(lead, requireTopicMatch, rest) ==
    IF lead = None THEN rest ELSE <<lead[1]>> \o rest

\* leads.push(lead) unless the item gave no lead or, with requireTopicMatch,
\* the lead matched no topic; rest are the leads of the items after it
PushLead(lead, requireTopicMatch, rest) ==
    IF lead = None THEN rest
    ELSE IF requireTopicMatch /\ Len(lead[1].matchedTopics) = 0 THEN rest
    ELSE <<lead[1]>> \o rest

RECURSIVE parseSearchResults(_, _, _, _, _)
\* the leads of a response, in item order
parseSearchResults(items, queryUsed, topics, requireTopicMatch, now) ==
    IF Len(items) = 0 THEN << >>
    ELSE PushLead(parseSearchResult(items[1], queryUsed, topics, now),
                  requireTopicMatch,
                  parseSearchResults(Tail(items), queryUsed, topics,
                                     requireTopicMatch, now))

(***************************************************************************)
(* Query builder                                                           *)
(***************************************************************************)
QuoteMark == <<"\"">>

Quoted(t) == QuoteMark \o t \o QuoteMark

\* Array.prototype.slice(a, b), 0-based, b exclusive
Slice(sq, a, b) == Sub(sq, a + 1, (IF b < Len(sq) THEN b ELSE Len(sq)) + 1)

\* options.topics.map((t) => `"${t}"`).join(' OR '), parenthesized
TopicClause(topics) ==
    <<"(">> \o Join([i \in DOMAIN topics |-> Quoted(topics[i])], <<" ", "O", "R", " ">>)
      \o <<")">>

buildQuery(company, topics, exclusions) ==
    LET scope  == <<<<"s", "i", "t", "e", ":", "l", "i", "n", "k", "e", "d", "i", "n", ".", "c", "o", "m", "/", "i", "n">>>>
        tpart  == IF Len(topics) > 0 THEN <<TopicClause(topics)>> ELSE << >>
        cpart  == IF Len(company) > 0
                  THEN <<Quoted(company)>> ELSE << >>
        parts  == scope \o tpart \o cpart \o exclusions
    IN  Join(parts, <<" ">>)

(***************************************************************************)
(* Orchestrator (main): configuration, persisted files, one run at a time  *)
(***************************************************************************)
VARIABLES
    config,           \* target-companies.json and search-keywords.json
    leadsFile,        \* output/leads.json
    executedFile,     \* executed-queries.json
    pc,               \* where main is: idle, search, inflight, delay, save;
                      \* for the parser on its own: parse, parsed
    existingLeads, executedQueries, existingUrls,
    queries, queriesToRun, queriesExecuted, newLeads,
    runNo,            \* runs started so far; the clock of discoveredAt
    \* history of the runs, read by the properties only
    issued,           \* the queries passed to the search call in this run
    loadedExecuted,   \* the executed-query set as loaded by this run
    stopped,          \* this run left the loop on a quota / blocked error
    failedGeneric,    \* queries of this run whose search threw another error
    prev,             \* what the previous run did
    issuedEver,       \* every query passed to the search call, all runs
    allOk,            \* no search call has thrown so far
    firstSeen,        \* the first lead the parser returned for each URL
    dropped,          \* the URLs of the leads discarded as duplicates
    succeeded,        \* queries of this run whose search returned
    \* the parser on its own: parseSearchResult(item, options) and its result
    parseInput, parseOutput,
    \* the topic matchers on their own: the text and topics given, and what
    \* the findMatchedTopics of each source file returned for them
    matcherInput, matchedBy,
    \* the query builder on its own: buildQuery(options) and its result
    builderInput, builderOutput,
    \* the cleanup tool
    removedFile,      \* output/removed-leads.json
    lastPass,         \* history: the last cleanup pass, what it read
    removedEver,      \* history: the leads some pass took out of leads.json
    \* the scraper provider on its own: scrapeWithRetry and its caller
    scraper

orchVars == <<config, leadsFile, executedFile, pc, existingLeads,
              executedQueries, existingUrls, queries, queriesToRun,
              queriesExecuted, newLeads, runNo, issued, loadedExecuted,
              stopped, failedGeneric, prev, issuedEver, allOk, firstSeen,
              dropped, succeeded>>

parseVars == <<parseInput, parseOutput>>

toolVars == <<matcherInput, matchedBy, builderInput, builderOutput,
              removedFile, lastPass, removedEver, scraper>>

vars == <<orchVars, parseVars, toolVars>>

\* the per-run query budget; the source sets 20, scaled down here
MAX_QUERIES_PER_RUN == 2

MaxRuns == 2

RECURSIVE SeqsUpTo(_, _)
\* the sequences over S of length at most n
SeqsUpTo(S, n) ==
    IF n = 0 THEN {<< >>}
    ELSE LET shorter == SeqsUpTo(S, n - 1)
         IN  shorter \cup {Append(sq, x) : sq \in shorter, x \in S}

\* target-companies.json: { companies: [{ name }] }: no company, one, the
\* same one twice, two different ones
CompanyLists ==
    {[i \in DOMAIN names |-> [name |-> names[i]]] :
        names \in {<< >>, <<<<"A">>>>, <<<<"A">>, <<"A">>>>, <<<<"A">>, <<"B">>>>}}

\* search-keywords.json: { topics, exclusions }
KeywordConfigs ==
    {[topics |-> t, exclusions |-> <<<<"-", "j", "o", "b", "s">>>>] :
        t \in {<< >>, <<<<"A", "i">>>>, <<<<"A", "i">>, <<"M", "l">>, <<"D", "b">>, <<"G", "o">>>>}}

MkItem(title, link, snippet) ==
    [title |-> title, link |-> link, snippet |-> snippet,
     htmlSnippet |-> << >>, thumbnail |-> None, image |-> None]

UrlAl == <<"l", "i", "n", "k", "e", "d", "i", "n", ".", "c", "o", "m", "/", "i", "n", "/", "a", "l">>

UrlBo == <<"l", "i", "n", "k", "e", "d", "i", "n", ".", "c", "o", "m", "/", "i", "n", "/", "b", "o">>

\* primary title, a topic in the title
ItemAl == MkItem(<<"A", "l", " ", "-", " ", "D", "e", "v", " ", "-", " ", "A", "i", " ", "|", " ", "L", "i", "n", "k", "e", "d", "I", "n">>, UrlAl, << >>)

\* the same profile under a two-part title, a topic in the snippet
ItemAl2 == MkItem(<<"A", "l", " ", "-", " ", "D", "e", "v", " ", "|", " ", "L", "i", "n", "k", "e", "d", "I", "n">>, UrlAl, <<"G", "o", " ", "a", "t", " ", "X", "y", ".">>)

\* a second profile
ItemBo == MkItem(<<"B", "o", " ", "-", " ", "M", "l", " ", "D", "e", "v", " ", "-", " ", "X", "y", " ", "|", " ", "L", "i", "n", "k", "e", "d", "I", "n">>, UrlBo, << >>)

\* a profile that mentions no topic
ItemNoTopic == MkItem(<<"C", "y", " ", "-", " ", "D", "e", "v", " ", "-", " ", "X", "y", " ", "|", " ", "L", "i", "n", "k", "e", "d", "I", "n">>, <<"l", "i", "n", "k", "e", "d", "i", "n", ".", "c", "o", "m", "/", "i", "n", "/", "c", "y">>, << >>)

\* not a profile page
ItemJobs == MkItem(<<"J", "o", "b", "s", " ", "-", " ", "A", "i", " ", "-", " ", "X", "y", " ", "|", " ", "L", "i", "n", "k", "e", "d", "I", "n">>, <<"l", "i", "n", "k", "e", "d", "i", "n", ".", "c", "o", "m", "/", "j", "o", "b", "s">>, << >>)

\* a profile page whose title has neither form
ItemOdd == MkItem(<<"D", "e", "e", ":", " ", "M", "l", " ", "D", "e", "v">>, <<"l", "i", "n", "k", "e", "d", "i", "n", ".", "c", "o", "m", "/", "i", "n", "/", "d", "e", "e">>, << >>)

\* response.items of a search call that returns
Responses ==
    {<< >>, <<ItemAl, ItemJobs, ItemAl2>>,
     <<ItemAl2, ItemNoTopic, ItemOdd, ItemBo>>}

\* a profile item whose title matches neither title pattern
Unparseable(item) ==
    /\ Includes(item.link, ProfileMarker)
    /\ ~Test(PRIMARY_PATTERN, item.title)
    /\ ~Test(FALLBACK_PATTERN, item.title)

\* each response with the same response less its unparseable items
SkipTable ==
    {<<items, SelectSeq(items, LAMBDA it : ~Unparseable(it))>> :
        items \in Responses}

\* String(error) of a search call that throws
ErrorMessages ==
    {<<"E", "r", "r", "o", "r", ":", " ", "G", "o", "o", "g", "l", "e", " ", "A", "P", "I", " ", "e", "r", "r", "o", "r", " ", "(", "5", "0", "0", ")", ":", " ", "d", "o", "w", "n">>,
     <<"E", "r", "r", "o", "r", ":", " ", "G", "o", "o", "g", "l", "e", " ", "A", "P", "I", " ", "e", "r", "r", "o", "r", " ", "(", "4", "2", "9", ")", ":", " ", "Q", "u", "o", "t", "a", " ", "e", "x", "c", "e", "e", "d", "e", "d">>,
     <<"E", "r", "r", "o", "r", ":", " ", "G", "o", "o", "g", "l", "e", " ", "A", "P", "I", " ", "e", "r", "r", "o", "r", " ", "(", "4", "0", "3", ")", ":", " ", "q", "u", "o", "t", "a">>,
     <<"E", "r", "r", "o", "r", ":", " ", "G", "o", "o", "g", "l", "e", " ", "C", "A", "P", "T", "C", "H", "A", " ", "d", "e", "t", "e", "c", "t", "e", "d">>,
     <<"E", "r", "r", "o", "r", ":", " ", "b", "l", "o", "c", "k", "e", "d">>}

\* errorMsg.includes('429') || errorMsg.includes('quota')
IsQuotaError(errorMsg) ==
    Includes(errorMsg, <<"4", "2", "9">>) \/ Includes(errorMsg, <<"q", "u", "o", "t", "a">>)

\* errorMsg.includes('CAPTCHA') || errorMsg.includes('blocked')
IsBlockedError(errorMsg) ==
    Includes(errorMsg, <<"C", "A", "P", "T", "C", "H", "A">>) \/ Includes(errorMsg, <<"b", "l", "o", "c", "k", "e", "d">>)

NoItem == MkItem(<< >>, << >>, << >>)

NoPrev == [ran |-> FALSE, fit |-> FALSE, stopped |-> FALSE, failed |-> {},
           leads |-> << >>]

\* the configuration files a run can find: each present or missing
Configs ==
    [companies : {None} \cup {Some(c) : c \in CompanyLists},
     keywords : {None} \cup {Some(k) : k \in KeywordConfigs}]

\* no run has started: no output file, no ledger
OrchIdle ==
    /\ leadsFile = << >>
    /\ executedFile = {}
    /\ existingLeads = << >>
    /\ executedQueries = {}
    /\ existingUrls = {}
    /\ queries = << >>
    /\ queriesToRun = << >>
    /\ queriesExecuted = 0
    /\ newLeads = << >>
    /\ runNo = 0
    /\ issued = << >>
    /\ loadedExecuted = {}
    /\ stopped = FALSE
    /\ failedGeneric = {}
    /\ prev = NoPrev
    /\ issuedEver = << >>
    /\ allOk = TRUE
    /\ firstSeen = << >>
    /\ dropped = {}
    /\ succeeded = {}

OrchInit == config \in Configs /\ pc = "idle" /\ OrchIdle

NoInput == [item |-> NoItem, options |-> [queryUsed |-> << >>, topics |-> << >>]]

ParseIdle == parseInput = NoInput /\ parseOutput = None

NoPass == [ran |-> FALSE, script |-> << >>, before |-> << >>, topics |-> << >>]

\* no matcher has been called
MatcherIdle ==
    /\ matcherInput = [text |-> << >>, topics |-> << >>]
    /\ matchedBy = [file \in MatcherFiles |-> None]

\* buildQuery has not been called
BuilderIdle == builderInput = << >> /\ builderOutput = None

\* no cleanup pass has run: no removed-leads file
CleanupIdle == removedFile = << >> /\ lastPass = NoPass /\ removedEver = {}

\* no scrape has been asked for
NoScrape == [maxRetries |-> 0, pending |-> 0, at |-> "idle", attempt |-> 0,
             lastError |-> None, thrown |-> None, response |-> None,
             events |-> << >>, callStart |-> 0, blocked |-> FALSE]

ScraperIdle == scraper = NoScrape

ToolsIdle == MatcherIdle /\ BuilderIdle /\ CleanupIdle /\ ScraperIdle

RECURSIVE GenerateOverlapping(_, _, _)
\* GenerateQueries with the second batch starting at the third topic
GenerateOverlapping(companies, keywords, executed) ==
    IF Len(companies) = 0 THEN << >>
    ELSE
      LET company == companies[1]
          q1 == buildQuery(company.name, Slice(keywords.topics, 0, 3),
                           keywords.exclusions)
          q2 == buildQuery(company.name,
                           Slice(keywords.topics, 2, Len(keywords.topics)),
                           keywords.exclusions)
      IN  (IF q1 \notin executed
           THEN <<[query |-> q1, company |-> company.name]>> ELSE << >>)
          \o (IF q2 \notin executed
              THEN <<[query |-> q2, company |-> company.name]>> ELSE << >>)
          \o GenerateOverlapping(Tail(companies), keywords, executed)

RECURSIVE GenerateUnfiltered(_, _, _)
\* GenerateQueries without the executedQueries.has(...) tests
GenerateUnfiltered(companies, keywords, executed) ==
    IF Len(companies) = 0 THEN << >>
    ELSE
      LET company == companies[1]
          q1 == buildQuery(company.name, Slice(keywords.topics, 0, 3),
                           keywords.exclusions)
          q2 == buildQuery(company.name,
                           Slice(keywords.topics, 3, Len(keywords.topics)),
                           keywords.exclusions)
      IN  <<[query |-> q1, company |-> company.name],
            [query |-> q2, company |-> company.name]>>
          \o GenerateUnfiltered(Tail(companies), keywords, executed)

RECURSIVE GenerateQueries(_, _, _)
\* for (const company of companies) { q1 ...; q2 ... }
GenerateQueries(companies, keywords, executed) ==
    IF Len(companies) = 0 THEN << >>
    ELSE
      LET company == companies[1]
          q1 == buildQuery(company.name, Slice(keywords.topics, 0, 3),
                           keywords.exclusions)
          q2 == buildQuery(company.name,
                           Slice(keywords.topics, 3, Len(keywords.topics)),
                           keywords.exclusions)
      IN  (IF q1 \notin executed
           THEN <<[query |-> q1, company |-> company.name]>> ELSE << >>)
          \o (IF q2 \notin executed
              THEN <<[query |-> q2, company |-> company.name]>> ELSE << >>)
          \o GenerateQueries(Tail(companies), keywords, executed)

\* AbortRun with the tests of the configuration files placed after the
\* ledger is written
AbortAfterSave ==
    /\ pc = "idle"
    /\ runNo < MaxRuns
    /\ config.companies = None \/ config.keywords = None
    /\ runNo' = runNo + 1
    /\ executedFile' = executedFile \cup {buildQuery(<< >>, << >>, << >>)}
    /\ UNCHANGED <<config, leadsFile, pc, existingLeads,
                   executedQueries, existingUrls, queries, queriesToRun,
                   queriesExecuted, newLeads, issued, loadedExecuted, stopped,
                   failedGeneric, prev, issuedEver, allOk, firstSeen, dropped,
                   succeeded>>
    /\ UNCHANGED <<parseVars, toolVars>>

\* process.exit(1): a configuration file is missing
AbortRun ==
    /\ pc = "idle"
    /\ runNo < MaxRuns
    /\ config.companies = None \/ config.keywords = None
    /\ runNo' = runNo + 1
    /\ UNCHANGED <<config, leadsFile, executedFile, pc, existingLeads,
                   executedQueries, existingUrls, queries, queriesToRun,
                   queriesExecuted, newLeads, issued, loadedExecuted, stopped,
                   failedGeneric, prev, issuedEver, allOk, firstSeen, dropped,
                   succeeded>>
    /\ UNCHANGED <<parseVars, toolVars>>

\* main up to the query loop: load, generate, cap; return when nothing is left
StartRun ==
    /\ pc = "idle"
    /\ runNo < MaxRuns
    /\ config.companies # None /\ config.keywords # None
    /\ LET qs    == GenerateQueries(config.companies[1], config.keywords[1],
                                    executedFile)
           toRun == Slice(qs, 0, MAX_QUERIES_PER_RUN)
       IN  /\ existingLeads' = leadsFile
           /\ executedQueries' = executedFile
           /\ existingUrls' = {leadsFile[i].linkedinUrl : i \in DOMAIN leadsFile}
           /\ queries' = qs
           /\ queriesToRun' = toRun
           /\ pc' = IF Len(toRun) = 0 THEN "idle" ELSE "search"
           /\ prev' = IF runNo = 0 THEN NoPrev
                      ELSE [ran |-> TRUE,
                            fit |-> Len(queries) <= MAX_QUERIES_PER_RUN,
                            stopped |-> stopped, failed |-> failedGeneric,
                            leads |-> leadsFile]
    /\ queriesExecuted' = 0
    /\ newLeads' = << >>
    /\ runNo' = runNo + 1
    /\ issued' = << >>
    /\ loadedExecuted' = executedFile
    /\ stopped' = FALSE
    /\ failedGeneric' = {}
    /\ succeeded' = {}
    /\ UNCHANGED <<config, leadsFile, executedFile, issuedEver, allOk, firstSeen,
                   dropped>>
    /\ UNCHANGED <<parseVars, toolVars>>

CurrentQuery == queriesToRun[queriesExecuted].query

\* top of the loop body: queriesExecuted++, then await executeSearch(query)
IssueSearch ==
    /\ pc = "search"
    /\ queriesExecuted' = queriesExecuted + 1
    /\ issued' = Append(issued, queriesToRun[queriesExecuted + 1].query)
    /\ issuedEver' = Append(issuedEver, queriesToRun[queriesExecuted + 1].query)
    /\ pc' = "inflight"
    /\ UNCHANGED <<config, leadsFile, executedFile, existingLeads,
                   executedQueries, existingUrls, queries, queriesToRun,
                   newLeads, runNo, loadedExecuted, stopped, failedGeneric,
                   prev, allOk, firstSeen, dropped, succeeded>>
    /\ UNCHANGED <<parseVars, toolVars>>

RECURSIVE DedupeForgetsUrl(_, _, _)
\* Dedupe without existingUrls.add(lead.linkedinUrl)
DedupeForgetsUrl(leads, urls, acc) ==
    IF Len(leads) = 0 THEN [newLeads |-> acc, urls |-> urls]
    ELSE IF leads[1].linkedinUrl \notin urls
    THEN DedupeForgetsUrl(Tail(leads), urls, Append(acc, leads[1]))
    ELSE DedupeForgetsUrl(Tail(leads), urls, acc)

RECURSIVE Dedupe(_, _, _)
\* for (const lead of leads) { if (!existingUrls.has(lead.linkedinUrl)) ... }
Dedupe(leads, urls, acc) ==
    IF Len(leads) = 0 THEN [newLeads |-> acc, urls |-> urls]
    ELSE IF leads[1].linkedinUrl \notin urls
    THEN Dedupe(Tail(leads), urls \cup {leads[1].linkedinUrl},
                Append(acc, leads[1]))
    ELSE Dedupe(Tail(leads), urls, acc)

RECURSIVE NoteFirst(_, _)
\* history: the leads in processing order, the first one kept for each URL
NoteFirst(seen, leads) ==
    IF Len(leads) = 0 THEN seen
    ELSE IF \E i \in DOMAIN seen : seen[i].linkedinUrl = leads[1].linkedinUrl
    THEN NoteFirst(seen, Tail(leads))
    ELSE NoteFirst(Append(seen, leads[1]), Tail(leads))

\* AfterQuery going to the next query at once
AfterQueryNoDelay ==
    IF queriesExecuted < Len(queriesToRun) THEN "search" ELSE "save"

\* after the loop body: the pacing delay, unless this was the last query
AfterQuery == IF queriesExecuted < Len(queriesToRun) THEN "delay" ELSE "save"

\* parseSearchResults(response.items, { topics: allTopics,
\* requireTopicMatch: true }) of every response and topic list of the model,
\* computed once; queryUsed and discoveredAt are filled in per call
ParseTable ==
    {<<items, topics, parseSearchResults(items, << >>, topics, TRUE, 0)>> :
        items \in Responses \cup {row[2] : row \in SkipTable},
        topics \in {k.topics : k \in KeywordConfigs}}

\* parseSearchResults(response.items, { topics: allTopics }) of every
\* response and topic list of the model: requireTopicMatch left at false
LooseTable ==
    {<<items, topics, parseSearchResults(items, << >>, topics, FALSE, 0)>> :
        items \in Responses, topics \in {k.topics : k \in KeywordConfigs}}

\* Stamped leaving queryUsed as the parser was given it
StampedOnlyDate(leads, queryUsed, now) ==
    [i \in DOMAIN leads |-> [leads[i] EXCEPT !.discoveredAt = now]]

\* the leads with their queryUsed and discoveredAt
Stamped(leads, queryUsed, now) ==
    [i \in DOMAIN leads |->
        [leads[i] EXCEPT !.queryUsed = queryUsed, !.discoveredAt = now]]

\* const leads = parseSearchResults(response.items, { queryUsed: query, ... })
ParsedLeads(items, queryUsed, topics, now) ==
    Stamped((CHOOSE r \in ParseTable : r[1] = items /\ r[2] = topics)[3],
            queryUsed, now)

\* Deduplicate: the leads with a URL not seen before are kept
KeepNew(leads) ==
    /\ newLeads' = Dedupe(leads, existingUrls, newLeads).newLeads
    /\ existingUrls' = Dedupe(leads, existingUrls, newLeads).urls
    /\ firstSeen' = NoteFirst(firstSeen, leads)
    /\ dropped' = dropped \cup
          {leads[i].linkedinUrl : i \in
             {j \in DOMAIN leads :
                \/ leads[j].linkedinUrl \in existingUrls
                \/ \E k \in 1..(j - 1) :
                     leads[k].linkedinUrl = leads[j].linkedinUrl}}

\* the try block after the search call returned
SearchReturns(items) ==
    /\ pc = "inflight"
    /\ KeepNew(ParsedLeads(items, CurrentQuery, config.keywords[1].topics,
                           runNo))
    /\ executedQueries' = executedQueries \cup {CurrentQuery}
    /\ succeeded' = succeeded \cup {CurrentQuery}
    /\ pc' = AfterQuery
    /\ UNCHANGED <<config, leadsFile, executedFile, existingLeads, queries,
                   queriesToRun, queriesExecuted, runNo, issued,
                   loadedExecuted, stopped, failedGeneric, prev, issuedEver,
                   allOk>>
    /\ UNCHANGED <<parseVars, toolVars>>

\* the catch block leaving the loop on every error
SearchThrowsStops(errorMsg) ==
    /\ pc = "inflight"
    /\ pc' = "save"
    /\ IF IsQuotaError(errorMsg) \/ IsBlockedError(errorMsg)
       THEN stopped' = TRUE /\ UNCHANGED failedGeneric
       ELSE failedGeneric' = failedGeneric \cup {CurrentQuery} /\ UNCHANGED stopped
    /\ allOk' = FALSE
    /\ UNCHANGED <<config, leadsFile, executedFile, existingLeads,
                   executedQueries, existingUrls, queries, queriesToRun,
                   queriesExecuted, newLeads, runNo, issued, loadedExecuted,
                   prev, issuedEver, firstSeen, dropped, succeeded>>
    /\ UNCHANGED <<parseVars, toolVars>>

\* the catch block without its break
SearchThrowsGoesOn(errorMsg) ==
    /\ pc = "inflight"
    /\ pc' = AfterQuery
    /\ IF IsQuotaError(errorMsg) \/ IsBlockedError(errorMsg)
       THEN stopped' = TRUE /\ UNCHANGED failedGeneric
       ELSE failedGeneric' = failedGeneric \cup {CurrentQuery} /\ UNCHANGED stopped
    /\ allOk' = FALSE
    /\ UNCHANGED <<config, leadsFile, executedFile, existingLeads,
                   executedQueries, existingUrls, queries, queriesToRun,
                   queriesExecuted, newLeads, runNo, issued, loadedExecuted,
                   prev, issuedEver, firstSeen, dropped, succeeded>>
    /\ UNCHANGED <<parseVars, toolVars>>

\* the catch block
SearchThrows(errorMsg) ==
    /\ pc = "inflight"
    /\ IF IsQuotaError(errorMsg) \/ IsBlockedError(errorMsg)
       THEN /\ pc' = "save"
            /\ stopped' = TRUE
            /\ UNCHANGED failedGeneric
       ELSE /\ pc' = AfterQuery
            /\ failedGeneric' = failedGeneric \cup {CurrentQuery}
            /\ UNCHANGED stopped
    /\ allOk' = FALSE
    /\ UNCHANGED <<config, leadsFile, executedFile, existingLeads,
                   executedQueries, existingUrls, queries, queriesToRun,
                   queriesExecuted, newLeads, runNo, issued, loadedExecuted,
                   prev, issuedEver, firstSeen, dropped, succeeded>>
    /\ UNCHANGED <<parseVars, toolVars>>

\* await delay(DELAY_BETWEEN_QUERIES_MS)
Delay ==
    /\ pc = "delay"
    /\ pc' = "search"
    /\ UNCHANGED <<config, leadsFile, executedFile, existingLeads,
                   executedQueries, existingUrls, queries, queriesToRun,
                   queriesExecuted, newLeads, runNo, issued, loadedExecuted,
                   stopped, failedGeneric, prev, issuedEver, allOk, firstSeen,
                   dropped, succeeded>>
    /\ UNCHANGED <<parseVars, toolVars>>

\* Save marking every generated query as executed
SaveMarksGenerated ==
    /\ pc = "save"
    /\ leadsFile' = existingLeads \o newLeads
    /\ executedFile' = executedQueries \cup
          {queries[i].query : i \in DOMAIN queries}
    /\ pc' = "idle"
    /\ UNCHANGED <<config, existingLeads, executedQueries, existingUrls,
                   queries, queriesToRun, queriesExecuted, newLeads, runNo,
                   issued, loadedExecuted, stopped, failedGeneric, prev,
                   issuedEver, allOk, firstSeen, dropped, succeeded>>
    /\ UNCHANGED <<parseVars, toolVars>>

\* Save writing the new leads ahead of the loaded ones
SaveNewFirst ==
    /\ pc = "save"
    /\ leadsFile' = newLeads \o existingLeads
    /\ executedFile' = executedQueries
    /\ pc' = "idle"
    /\ UNCHANGED <<config, existingLeads, executedQueries, existingUrls,
                   queries, queriesToRun, queriesExecuted, newLeads, runNo,
                   issued, loadedExecuted, stopped, failedGeneric, prev,
                   issuedEver, allOk, firstSeen, dropped, succeeded>>
    /\ UNCHANGED <<parseVars, toolVars>>

\* Save results: both files are written, whatever ended the loop
Save ==
    /\ pc = "save"
    /\ leadsFile' = existingLeads \o newLeads
    /\ executedFile' = executedQueries
    /\ pc' = "idle"
    /\ UNCHANGED <<config, existingLeads, executedQueries, existingUrls,
                   queries, queriesToRun, queriesExecuted, newLeads, runNo,
                   issued, loadedExecuted, stopped, failedGeneric, prev,
                   issuedEver, allOk, firstSeen, dropped, succeeded>>
    /\ UNCHANGED <<parseVars, toolVars>>

Init == OrchInit /\ ParseIdle /\ ToolsIdle

Next ==
    \/ AbortRun
    \/ StartRun
    \/ IssueSearch
    \/ \E items \in Responses : SearchReturns(items)
    \/ \E errorMsg \in ErrorMessages : SearchThrows(errorMsg)
    \/ Delay
    \/ Save

Spec == Init /\ [][Next]_vars

(***************************************************************************)
(* The parser on its own: parseSearchResult applied to one item            *)
(***************************************************************************)
\* how many hyphen-separated parts a generated title has at most
MaxParts == 3

\* the parts of a title: a word, a part cut off by the search engine, two
\* dots only
TitleParts == {<<"A", "l">>, <<"a", ".", ".", ".">>, <<".", ".">>}

TitleSeparators == {<<"-">>, <<" ", "-", " ">>}

TitleTails == {<<"|", "L", "i", "n", "k", "e", "d", "I", "n">>, <<" ", "|", " ", "l", "i", "n", "k", "e", "d", "i", "n">>, << >>}

\* the non-empty sequences over S of length at most n
NonEmptySeqsUpTo(S, n) == SeqsUpTo(S, n) \ {<< >>}

GeneratedTitles ==
    {Join(parts, sep) \o tail :
        parts \in NonEmptySeqsUpTo(TitleParts, MaxParts),
        sep \in TitleSeparators, tail \in TitleTails}

\* the items of the documented parser tests
TitleJane == <<"J", "a", "n", "e", " ", "D", "o", "e", " ", "-", " ", "S", "e", "n", "i", "o", "r", " ", "D", "i", "r", "e", "c", "t", "o", "r", " ", "o", "f", " ", "A", "g", "e", "n", "t", "i", "c", " ", "A", "I", " ", "P", "l", "a", "t", "f", ".", ".", ".", " ", "|", " ", "L", "i", "n", "k", "e", "d", "I", "n">>

TitleBob == <<"B", "o", "b", " ", "W", "i", "l", "s", "o", "n", " ", "-", " ", "A", "I", " ", "E", "n", "g", "i", "n", "e", "e", "r", " ", "|", " ", "L", "i", "n", "k", "e", "d", "I", "n">>

SnippetBob == <<"W", "o", "r", "k", "i", "n", "g", " ", "a", "t", " ", "G", "o", "o", "g", "l", "e", " ", "o", "n", " ", "a", "g", "e", "n", "t", "s", ".", ".", ".">>

UrlDoc == <<"h", "t", "t", "p", "s", ":", "/", "/", "l", "i", "n", "k", "e", "d", "i", "n", ".", "c", "o", "m", "/", "i", "n", "/", "d", "o", "c">>

ItemJane == MkItem(TitleJane, UrlDoc, Ellipsis)

ItemBob == MkItem(TitleBob, UrlDoc, SnippetBob)

\* the item of the documented test 'should skip non-matching titles'
ItemDocJobs ==
    MkItem(<<"L", "i", "n", "k", "e", "d", "I", "n", ":", " ", "5", "0", "0", "+", " ", "A", "I", " ", "J", "o", "b", "s">>,
           <<"h", "t", "t", "p", "s", ":", "/", "/", "l", "i", "n", "k", "e", "d", "i", "n", ".", "c", "o", "m", "/", "j", "o", "b", "s", "/", "a", "i">>, Ellipsis)

\* a two-part title on a company page
ItemBobCompany ==
    MkItem(TitleBob, <<"h", "t", "t", "p", "s", ":", "/", "/", "l", "i", "n", "k", "e", "d", "i", "n", ".", "c", "o", "m", "/", "c", "o", "m", "p", "a", "n", "y", "/", "b", "o", "b">>, SnippetBob)

\* a title whose role has an ellipsis between two words
ItemSpacedDots ==
    MkItem(<<"A", "l", " ", "-", " ", "D", "e", " ", ".", ".", ".", " ", "v", " ", "-", " ", "X", "y", " ", "|", " ", "L", "i", "n", "k", "e", "d", "I", "n">>, UrlAl, << >>)

ParseItems ==
    {MkItem(title, UrlAl, snippet) :
        title \in GeneratedTitles, snippet \in {<<"a", "t", " ", "X", "y", ".">>}}
      \cup {ItemJane, ItemBob, ItemJobs, ItemDocJobs, ItemBobCompany,
            ItemSpacedDots}

ParseOptions ==
    {[queryUsed |-> <<"q">>, topics |-> <<<<"A", "g", "e", "n", "t", "i", "c", " ", "A", "I">>, <<"A", "l">>>>]}

\* an item and its options are handed to the parser
ParseInit ==
    /\ config = [companies |-> None, keywords |-> None]
    /\ OrchIdle
    /\ pc = "parse"
    /\ parseInput \in [item : ParseItems, options : ParseOptions]
    /\ parseOutput = None
    /\ ToolsIdle

\* parseSearchResult(item, options) returns
ParseOne ==
    /\ pc = "parse"
    /\ parseOutput' = parseSearchResult(parseInput.item,
                                        parseInput.options.queryUsed,
                                        parseInput.options.topics, 0)
    /\ pc' = "parsed"
    /\ UNCHANGED <<config, leadsFile, executedFile, existingLeads,
                   executedQueries, existingUrls, queries, queriesToRun,
                   queriesExecuted, newLeads, runNo, issued, loadedExecuted,
                   stopped, failedGeneric, prev, issuedEver, allOk, firstSeen,
                   dropped, succeeded>>
    /\ UNCHANGED <<parseInput, toolVars>>

ParseNext == ParseOne

SpecParse == ParseInit /\ [][ParseNext]_vars

(***************************************************************************)
(* Properties of the orchestrator                                          *)
(***************************************************************************)
Urls(leads) == {leads[i].linkedinUrl : i \in DOMAIN leads}

\* C1: no two leads of the persisted collection have the same linkedinUrl,
\* and each persisted lead is the first lead processed for its URL: a lead
\* whose URL is in the loaded collection or was captured earlier in the run
\* is discarded.
C1_UniqueFirstSeen ==
    /\ \A i, j \in DOMAIN leadsFile :
         leadsFile[i].linkedinUrl = leadsFile[j].linkedinUrl => i = j
    /\ \A i \in DOMAIN leadsFile :
         \E k \in DOMAIN firstSeen : firstSeen[k] = leadsFile[i]
    /\ pc = "idle" => Urls(leadsFile) = Urls(firstSeen)

\* a second run has persisted a collection from which a lead of a loaded URL
\* and a lead of a URL captured earlier in the same run were discarded
C1_Witness ==
    /\ pc = "idle" /\ runNo = 2
    /\ Len(existingLeads) > 0 /\ Len(newLeads) > 0
    /\ Urls(existingLeads) \subseteq dropped
    /\ Urls(newLeads) \cap dropped # {}

\* C2: a query whose search failed with a generic error is in the
\* executed-query set persisted at the end of the run.
C2_FailedQueryMarked ==
    pc = "idle" => failedGeneric \subseteq executedFile

\* C3: after a run whose candidate list fitted the budget and that no quota
\* or blocked error stopped, the next run issues no search call and leaves
\* the persisted lead collection unchanged.
C3_SecondRunIdle ==
    (prev.ran /\ prev.fit /\ ~prev.stopped) =>
        Len(issued) = 0 /\ leadsFile = prev.leads

\* C4: once a search call has failed with a quota or blocked error the run
\* makes no further search call, and it ends by persisting every lead
\* captured so far and the ledger of the loaded and the returned queries.
C4_StopsAndPersists ==
    /\ [](stopped => pc \in {"save", "idle"})
    /\ [][stopped /\ stopped' => issued' = issued]_vars
    /\ []((stopped /\ pc = "idle") =>
            /\ leadsFile = firstSeen
            /\ executedFile = loadedExecuted \cup succeeded)

\* a run of two queries stopped at its first one has persisted its files
C4_Witness ==
    /\ stopped /\ pc = "idle"
    /\ Len(issued) < Len(queriesToRun)
    /\ Len(leadsFile) > 0 /\ executedFile # {}

\* the candidate queries of the configuration, in generation order: two for
\* each company, the first with the topics 1..3, the second with the rest
AllCandidates ==
    IF config.companies = None \/ config.keywords = None THEN << >>
    ELSE LET companies == config.companies[1]
             keywords  == config.keywords[1]
         IN  [i \in 1..(2 * Len(companies)) |->
                buildQuery(companies[(i + 1) \div 2].name,
                           IF i % 2 = 1
                           THEN Slice(keywords.topics, 0, 3)
                           ELSE Slice(keywords.topics, 3, Len(keywords.topics)),
                           keywords.exclusions)]

\* the first min(B, k) of the k candidates not in the loaded executed set
Budgeted ==
    LET Fresh(q)   == q \notin loadedExecuted
        unexecuted == SelectSeq(AllCandidates, Fresh)
    IN  SubSeq(unexecuted, 1, Min({MAX_QUERIES_PER_RUN, Len(unexecuted)}))

\* C5 as stated: when the query loop has ended, the search calls issued are
\* exactly the first min(B, k) unexecuted candidates.
C5_ExactlyBudgeted == pc = "save" => issued = Budgeted

\* C5, amended: the search calls issued are a prefix of the first min(B, k)
\* unexecuted candidates, all of them when no quota or blocked error stopped
\* the run; never more than B, never a query of the loaded executed set.
C5_PrefixOfBudgeted ==
    /\ Len(issued) <= Len(Budgeted)
    /\ issued = SubSeq(Budgeted, 1, Len(issued))
    /\ Len(issued) <= MAX_QUERIES_PER_RUN
    /\ \A i \in DOMAIN issued : issued[i] \notin loadedExecuted
    /\ (pc = "save" /\ ~stopped) => issued = Budgeted

\* a later run, stopped by a quota or blocked error before its budget is used
C5_Witness ==
    /\ pc = "save" /\ stopped
    /\ loadedExecuted # {}
    /\ Len(issued) < Len(Budgeted)

\* C6: with every search succeeding, after ceil(N/B) runs each of the N
\* candidate queries has been issued exactly once, and later runs issue none.
C6_DeferredIssuedOnce ==
    LET N == Len(AllCandidates)
        enough == (N + MAX_QUERIES_PER_RUN - 1) \div MAX_QUERIES_PER_RUN
    IN  (allOk /\ pc = "idle" /\ N > 0 /\ runNo >= enough) =>
          /\ \A i \in DOMAIN AllCandidates :
               Cardinality({j \in DOMAIN issuedEver :
                              issuedEver[j] = AllCandidates[i]}) = 1
          /\ runNo > enough => Len(issued) = 0

(***************************************************************************)
(* Properties of the parser                                                *)
(***************************************************************************)
\* the parser has returned for an item with a profile link
ParsedProfile ==
    pc = "parsed" /\ Includes(parseInput.item.link, ProfileMarker)

\* C7: an item with a profile link whose title matches the primary pattern
\* yields a lead of confidence "low" when the title contains "..." and of
\* confidence "high" when it does not.
C7_PrimaryConfidence ==
    (ParsedProfile /\ Test(PRIMARY_PATTERN, parseInput.item.title)) =>
        /\ parseOutput # None
        /\ parseOutput[1].confidence =
             IF Includes(parseInput.item.title, Ellipsis) THEN "low" ELSE "high"

\* a truncated three-part title has been graded low
C7_Witness ==
    /\ ParsedProfile
    /\ Test(PRIMARY_PATTERN, parseInput.item.title)
    /\ Includes(parseInput.item.title, Ellipsis)
    /\ parseOutput # None /\ parseOutput[1].confidence = "low"

C9_JaneDoeLow ==
    (ParsedProfile /\ parseInput.item.title = TitleJane) =>
        parseOutput # None /\ parseOutput[1].confidence = "low"

\* C10: the item titled "Bob Wilson - AI Engineer | LinkedIn" with the
\* snippet "Working at Google on agents..." takes the fallback pattern and
\* yields the company "Google" and the confidence "medium".
C10_BobWilsonGoogle ==
    (ParsedProfile /\ parseInput.item = ItemBob) =>
        /\ ~Test(PRIMARY_PATTERN, TitleBob) /\ Test(FALLBACK_PATTERN, TitleBob)
        /\ parseOutput # None
        /\ parseOutput[1].company = <<"G", "o", "o", "g", "l", "e">>
        /\ parseOutput[1].confidence = "medium"


(***************************************************************************)
(* The topic matchers on their own: each file's findMatchedTopics is       *)
(* called with the same text and topics                                    *)
(***************************************************************************)
TextReagents == <<"w", "o", "r", "k", "s", " ", "w", "i", "t", "h", " ", "r", "e", "a", "g", "e", "n", "t", "s", " ", "d", "a", "i", "l", "y">>

TextAgentRole == <<"a", "n", " ", "A", "I", " ", "A", "g", "e", "n", "t", " ", "r", "o", "l", "e">>

MatcherTexts == {TextReagents, TextAgentRole, <<"A", "G", "E", "N", "T", "-", "b", "a", "s", "e", "d", ",", " ", "a", "g", "e", "n", "t", "s">>, << >>}

TopicAgent == <<"A", "g", "e", "n", "t">>

MatcherTopics == {<<TopicAgent>>, <<<<"a", "i">>, TopicAgent>>, <<<<"A", "I", " ", "A", "g", "e", "n", "t">>>>}

TopicsInit ==
    /\ config = [companies |-> None, keywords |-> None]
    /\ OrchIdle
    /\ ParseIdle
    /\ BuilderIdle
    /\ CleanupIdle
    /\ ScraperIdle
    /\ pc = "match"
    /\ matcherInput \in [text : MatcherTexts, topics : MatcherTopics]
    /\ matchedBy = [file \in MatcherFiles |-> None]

\* findMatchedTopics(text, topics) of one file returns
RunMatcher(file) ==
    /\ pc = "match"
    /\ matchedBy[file] = None
    /\ matchedBy' =
          [matchedBy EXCEPT
              ![file] = Some(MatcherOf(file, matcherInput.text,
                                       matcherInput.topics))]
    /\ UNCHANGED <<orchVars, parseVars, matcherInput, builderInput,
                   builderOutput, removedFile, lastPass, removedEver,
                   scraper>>

TopicsNext == \E file \in MatcherFiles : RunMatcher(file)

SpecTopics == TopicsInit /\ [][TopicsNext]_vars

\* the elements of a sequence
Range(sq) == {sq[i] : i \in DOMAIN sq}

\* topic occurs in text, ignoring case, with a word boundary on either side
OccursAsWord(text, topic) ==
    \E p \in 1..(Len(text) - Len(topic) + 1) :
        /\ toLowerCase(Sub(text, p, p + Len(topic))) = toLowerCase(topic)
        /\ IsWordAt(text, p - 1) # IsWordAt(text, p)
        /\ IsWordAt(text, p + Len(topic) - 1) # IsWordAt(text, p + Len(topic))

\* C11: a parser's findMatchedTopics returns a topic only if the topic
\* occurs in the text, case-insensitively, between word boundaries: "Agent"
\* is not returned for a text with "reagents" only, and is returned for
\* "an AI Agent role"
C11_WholeWordTopics ==
    \A file \in ParserFiles :
        matchedBy[file] # None =>
            /\ \A topic \in Range(matchedBy[file][1]) :
                   OccursAsWord(matcherInput.text, topic)
            /\ matcherInput.text = TextReagents =>
                   TopicAgent \notin Range(matchedBy[file][1])
            /\ (matcherInput.text = TextAgentRole
                  /\ TopicAgent \in Range(matcherInput.topics)) =>
                   TopicAgent \in Range(matchedBy[file][1])

\* C18: for the same text and topic list, the findMatchedTopics of a cleanup
\* script and the findMatchedTopics of a parser return the same topics
C18_CleanupMatchesLikeParser ==
    \A cleaner \in CleanupFiles, parser \in ParserFiles :
        (matchedBy[cleaner] # None /\ matchedBy[parser] # None) =>
            matchedBy[cleaner] = matchedBy[parser]

\* C12: an item whose link does not contain 'linkedin.com/in/' yields null,
\* whatever its title and snippet, also when the title matches the primary
\* or the fallback pattern
C12_NonProfileLinkIsNull ==
    (pc = "parsed" /\ ~Includes(parseInput.item.link, ProfileMarker)) =>
        parseOutput = None

\* an item with a well-formed title and a link that is no profile link has
\* been parsed
C12_Witness ==
    /\ pc = "parsed"
    /\ ~Includes(parseInput.item.link, ProfileMarker)
    /\ \/ Test(PRIMARY_PATTERN, parseInput.item.title)
       \/ Test(FALLBACK_PATTERN, parseInput.item.title)
    /\ parseOutput = None

\* C13: when a response holds a profile item whose title matches neither
\* pattern, the item gives no lead and no error: the leads kept are those
\* of the response without that item, the query is marked executed and the
\* loop goes on as after any other response
C13_UnparseableSkipped ==
    [][\A row \in SkipTable :
          (row[1] # row[2] /\ SearchReturns(row[1])) =>
              /\ newLeads' =
                    Dedupe(ParsedLeads(row[2], CurrentQuery,
                                       config.keywords[1].topics, runNo),
                           existingUrls, newLeads).newLeads
              /\ CurrentQuery \in executedQueries'
              /\ pc' = AfterQuery
              /\ stopped' = stopped /\ failedGeneric' = failedGeneric
              /\ allOk' = allOk]_vars

\* a response with an unparseable item has returned and the lead of the item
\* after it has been kept
C13_Witness ==
    /\ pc \in {"delay", "save"}
    /\ CurrentQuery \in succeeded
    /\ \E i \in DOMAIN newLeads : newLeads[i].linkedinUrl = UrlBo
    /\ \A i \in DOMAIN newLeads : newLeads[i].linkedinUrl # ItemOdd.link

\* C15: with requireTopicMatch, no lead with an empty matchedTopics is
\* returned by parseSearchResults, has its URL added to existingUrls, or is
\* persisted by main; without requireTopicMatch the leads with an empty
\* matchedTopics are returned
C15_StrictModeDropsUnmatched ==
    /\ \A row \in ParseTable :
          \A i \in DOMAIN row[3] : Len(row[3][i].matchedTopics) > 0
    /\ \A i \in DOMAIN newLeads : Len(newLeads[i].matchedTopics) > 0
    /\ \A i \in DOMAIN leadsFile : Len(leadsFile[i].matchedTopics) > 0
    /\ existingUrls \subseteq Urls(existingLeads) \cup Urls(newLeads)
    /\ \A row \in LooseTable :
          /\ ItemNoTopic.link \in Urls(row[3]) <=>
                \E i \in DOMAIN row[1] : row[1][i] = ItemNoTopic
          /\ \E strict \in ParseTable :
                /\ strict[1] = row[1] /\ strict[2] = row[2]
                /\ strict[3] = SelectSeq(row[3],
                                  LAMBDA ld : Len(ld.matchedTopics) > 0)

\* a response with a profile that mentions no topic has returned, the leads
\* of its other items are persisted and its URL has not been seen
C15_Witness ==
    /\ pc = "idle"
    /\ \E i \in DOMAIN leadsFile : leadsFile[i].linkedinUrl = UrlBo
    /\ ItemNoTopic.link \notin existingUrls
    /\ ItemNoTopic.link \notin Urls(leadsFile)

\* C19: when target-companies.json or search-keywords.json is missing, a run
\* ends before any search call is issued and writes neither leads.json nor
\* executed-queries.json
C19_MissingConfigAborts ==
    [][(config.companies = None \/ config.keywords = None) =>
          /\ pc = "idle" /\ pc' = "idle"
          /\ issuedEver' = issuedEver /\ issuedEver = << >>
          /\ leadsFile' = leadsFile
          /\ executedFile' = executedFile]_vars

\* a run has been started without one of the configuration files
C19_Witness ==
    /\ config.companies = None \/ config.keywords = None
    /\ runNo > 0
    /\ pc = "idle" /\ issuedEver = << >>
    /\ leadsFile = << >> /\ executedFile = {}

\* C20: queries are issued one at a time: a search call starts only when
\* none is in flight, after the first call of a run a search call starts
\* only after a pacing delay, the delay follows the end of a call, returned
\* or thrown, and no delay is taken after the last query of the run
C20_SequentialPaced ==
    [][/\ Len(issued') > Len(issued) =>
             /\ pc = "search" /\ pc' = "inflight"
             /\ Len(issued') = Len(issued) + 1
       /\ pc' = "inflight" => pc = "search"
       /\ (pc' = "search" /\ pc # "idle") => pc = "delay"
       /\ pc = "inflight" => pc' \in {"delay", "save"}
       /\ pc' = "delay" =>
             pc = "inflight" /\ queriesExecuted < Len(queriesToRun)
       /\ pc = "delay" => pc' = "search"
       /\ (pc = "inflight" /\ queriesExecuted = Len(queriesToRun)) =>
             pc' = "save"]_vars

\* the second query of a run is in flight, after a delay
C20_Witness ==
    pc = "inflight" /\ queriesExecuted = 2 /\ Len(issued) = 2

(***************************************************************************)
(* The query builder on its own                                            *)
(***************************************************************************)
ScopeClause == <<"s", "i", "t", "e", ":", "l", "i", "n", "k", "e", "d", "i", "n", ".", "c", "o", "m", "/", "i", "n">>

\* the options object of a call: an absent company is the empty string, an
\* absent list the empty list; roles is a property buildQuery never reads
BuilderOptions ==
    [company    : {<< >>, <<"A">>, <<"X", "y", " ", "L", "a", "b", "s">>},
     topics     : {<< >>, <<<<"A", "i">>>>, <<<<"A", "i">>, <<"M", "l">>>>},
     roles      : {<< >>, <<<<"C", "t", "o">>>>, <<<<"H", "e", "a", "d">>, <<"L", "e", "a", "d">>>>},
     exclusions : {<< >>, <<<<"-", "j", "o", "b", "s">>>>, <<<<"-", "r", "e", "c", "r", "u", "i", "t", "e", "r">>, <<"-", "j", "o", "b", "s">>>>}]

QueryInit ==
    /\ config = [companies |-> None, keywords |-> None]
    /\ OrchIdle
    /\ ParseIdle
    /\ MatcherIdle
    /\ CleanupIdle
    /\ ScraperIdle
    /\ pc = "build"
    /\ builderInput \in BuilderOptions
    /\ builderOutput = None

\* buildQuery(options) returns
BuildOne ==
    /\ pc = "build"
    /\ builderOutput' = Some(buildQuery(builderInput.company,
                                        builderInput.topics,
                                        builderInput.exclusions))
    /\ pc' = "built"
    /\ UNCHANGED <<config, leadsFile, executedFile, existingLeads,
                   executedQueries, existingUrls, queries, queriesToRun,
                   queriesExecuted, newLeads, runNo, issued, loadedExecuted,
                   stopped, failedGeneric, prev, issuedEver, allOk, firstSeen,
                   dropped, succeeded>>
    /\ UNCHANGED <<parseVars, matcherInput, matchedBy, builderInput,
                   removedFile, lastPass, removedEver, scraper>>

QueryNext == BuildOne

SpecQuery == QueryInit /\ [][QueryNext]_vars

\* the quoted keywords joined by OR, in parentheses
OrGroup(keywords) ==
    <<"(">> \o Join([i \in DOMAIN keywords |-> Quoted(keywords[i])], <<" ", "O", "R", " ">>)
      \o <<")">>

\* C14: the query is the scope prefix, the OR-group of the topics if there
\* are any, the OR-group of the roles if roles are supplied, the quoted
\* target if supplied, and the exclusions in their order, joined by single
\* spaces
C14_ClausesInOrder ==
    pc = "built" =>
        builderOutput =
            Some(Join(<<ScopeClause>>
                      \o (IF Len(builderInput.topics) > 0
                          THEN <<OrGroup(builderInput.topics)>> ELSE << >>)
                      \o (IF Len(builderInput.roles) > 0
                          THEN <<OrGroup(builderInput.roles)>> ELSE << >>)
                      \o (IF Len(builderInput.company) > 0
                          THEN <<Quoted(builderInput.company)>> ELSE << >>)
                      \o builderInput.exclusions, <<" ">>))

(***************************************************************************)
(* The cleanup tool: passes over output/leads.json, by either cleanup      *)
(* script of the repository, with search-keywords.json edited in between   *)
(***************************************************************************)
MkLead(name, role, snippet, matchedTopics) ==
    [name |-> name, role |-> role, company |-> <<"X", "y">>, location |-> << >>,
     linkedinUrl |-> <<"l", "i", "n", "k", "e", "d", "i", "n", ".", "c", "o", "m", "/", "i", "n", "/">> \o toLowerCase(name),
     snippet |-> snippet, htmlSnippet |-> snippet, imageUrl |-> None,
     confidence |-> "high", matchedTopics |-> matchedTopics,
     queryUsed |-> <<"q">>, discoveredAt |-> 0]

LeadAl == MkLead(<<"A", "l">>, <<"A", "i", " ", "D", "e", "v">>, << >>, <<<<"A", "i">>>>)

LeadBo == MkLead(<<"B", "o">>, <<"D", "e", "v">>, <<"M", "l", ",", " ", "r", "e", "a", "g", "e", "n", "t", "s">>, <<<<"M", "l">>>>)

LeadCy == MkLead(<<"C", "y">>, <<"L", "e", "a", "d">>, <<"G", "o", " ", "a", "t", " ", "X", "y", ".">>, <<<<"G", "o">>>>)

\* leads.json as earlier runs left it
CleanupLeadLists == {<<LeadAl, LeadBo, LeadCy>>, <<LeadBo, LeadAl>>}

\* the topics of search-keywords.json at the time of a pass
CleanupTopics == {<<<<"A", "i">>, <<"G", "o">>>>, <<<<"M", "l">>>>, <<<<"A", "g", "e", "n", "t">>>>}

CleanupInit ==
    /\ config \in [companies : {None},
                   keywords : {Some([topics |-> t, exclusions |-> << >>]) :
                                 t \in CleanupTopics}]
    /\ pc = "idle"
    /\ leadsFile \in CleanupLeadLists
    /\ executedFile = {}
    /\ existingLeads = << >>
    /\ executedQueries = {}
    /\ existingUrls = {}
    /\ queries = << >>
    /\ queriesToRun = << >>
    /\ queriesExecuted = 0
    /\ newLeads = << >>
    /\ runNo = 0
    /\ issued = << >>
    /\ loadedExecuted = {}
    /\ stopped = FALSE
    /\ failedGeneric = {}
    /\ prev = NoPrev
    /\ issuedEver = << >>
    /\ allOk = TRUE
    /\ firstSeen = << >>
    /\ dropped = {}
    /\ succeeded = {}
    /\ ParseIdle
    /\ ToolsIdle

\* what a cleanup pass leaves alone
CleanupFrame ==
    UNCHANGED <<executedFile, pc, existingLeads, executedQueries,
                existingUrls, queries, queriesToRun, queriesExecuted,
                newLeads, runNo, issued, loadedExecuted, stopped,
                failedGeneric, prev, issuedEver, allOk, firstSeen, dropped,
                succeeded, parseVars, matcherInput, matchedBy, builderInput,
                builderOutput, scraper>>

\* search-keywords.json is edited
EditKeywords(topics) ==
    /\ config.keywords # None
    /\ config.keywords[1].topics # topics
    /\ config' = [config EXCEPT !.keywords[1].topics = topics]
    /\ UNCHANGED <<leadsFile, removedFile, lastPass, removedEver>>
    /\ CleanupFrame

\* const searchText = `${lead.role} ${lead.snippet}`
CleanupText(lead) == lead.role \o <<" ">> \o lead.snippet

\* the topic set a cleanup script computes for a lead
Recomputed(script, lead, topics) == MatcherOf(script, CleanupText(lead), topics)

RECURSIVE ValidLeads(_, _, _)
\* the loop of unnamed/part_000: validLeads.push(lead) after the overwrite
ValidLeads(script, leads, topics) ==
    IF Len(leads) = 0 THEN << >>
    ELSE IF Len(Recomputed(script, leads[1], topics)) > 0
         THEN <<[leads[1] EXCEPT
                   !.matchedTopics = Recomputed(script, leads[1], topics)]>>
              \o ValidLeads(script, Tail(leads), topics)
         ELSE ValidLeads(script, Tail(leads), topics)

RECURSIVE RemovedLeads(_, _, _)
\* the loop of unnamed/part_000: removedLeads.push(lead)
RemovedLeads(script, leads, topics) ==
    IF Len(leads) = 0 THEN << >>
    ELSE IF Len(Recomputed(script, leads[1], topics)) > 0
         THEN RemovedLeads(script, Tail(leads), topics)
         ELSE <<leads[1]>> \o RemovedLeads(script, Tail(leads), topics)

\* lead.matchedTopics = matchedTopics; lead.hasTopicMatch = length > 0
Flagged(lead, matchedTopics) ==
    [hasTopicMatch |-> Len(matchedTopics) > 0]
      @@ [lead EXCEPT !.matchedTopics = matchedTopics]

\* the fields of the Lead interface of types.ts
AsLead(lead) == [f \in DOMAIN lead \ {"hasTopicMatch"} |-> lead[f]]

\* the loop of src/cleanup-leads.ts: every lead is updated in place
FlaggedLeads(script, leads, topics) ==
    [i \in DOMAIN leads |->
       Flagged(AsLead(leads[i]), Recomputed(script, leads[i], topics))]

WritesRemoved(removed) ==
    /\ removedFile' = IF Len(removed) > 0 THEN removed ELSE removedFile
    /\ removedEver' = removedEver \cup Range(removed)

\* main of unnamed/part_000: leads.json keeps the valid leads, and
\* removed-leads.json is written when the pass removed something
CleanupRemove ==
    /\ pc = "idle"
    /\ config.keywords # None
    /\ leadsFile' = ValidLeads("unnamed/part_000", leadsFile,
                               config.keywords[1].topics)
    /\ WritesRemoved(RemovedLeads("unnamed/part_000", leadsFile,
                                  config.keywords[1].topics))
    /\ lastPass' = [ran |-> TRUE, script |-> "unnamed/part_000",
                    before |-> leadsFile,
                    topics |-> config.keywords[1].topics]
    /\ UNCHANGED config
    /\ CleanupFrame

\* main of src/cleanup-leads.ts: every lead is written back, flagged
CleanupFlag ==
    /\ pc = "idle"
    /\ config.keywords # None
    /\ leadsFile' = FlaggedLeads("src/cleanup-leads.ts", leadsFile,
                                 config.keywords[1].topics)
    /\ lastPass' = [ran |-> TRUE, script |-> "src/cleanup-leads.ts",
                    before |-> leadsFile,
                    topics |-> config.keywords[1].topics]
    /\ UNCHANGED <<config, removedFile, removedEver>>
    /\ CleanupFrame

CleanupNext ==
    \/ \E topics \in CleanupTopics : EditKeywords(topics)
    \/ CleanupRemove
    \/ CleanupFlag

SpecCleanup == CleanupInit /\ [][CleanupNext]_vars

\* the positions of the leads a pass has to keep
KeptAt(script, leads, topics) ==
    {i \in DOMAIN leads : Recomputed(script, leads[i], topics) # << >>}

\* the k-th smallest member of a set of positions
NthOf(positions, k) ==
    CHOOSE i \in positions : Cardinality({j \in positions : j < i}) = k - 1

\* C16: after a batch re-validation pass the primary lead collection holds
\* exactly the leads of the collection the pass read whose topic set,
\* recomputed over role + " " + snippet against the topic list of the pass,
\* is non-empty: in their original order, each with matchedTopics overwritten
\* by the recomputed set, its other Lead fields unchanged; no lead whose recomputed
\* set is empty is in the collection any more.
C16_PassKeepsExactlyMatching ==
    lastPass.ran =>
      /\ Len(leadsFile) =
           Cardinality(KeptAt(lastPass.script, lastPass.before, lastPass.topics))
      /\ \A k \in DOMAIN leadsFile :
           AsLead(leadsFile[k]) =
             [AsLead(lastPass.before[NthOf(KeptAt(lastPass.script,
                                 lastPass.before, lastPass.topics), k)])
                EXCEPT !.matchedTopics =
                  Recomputed(lastPass.script,
                             lastPass.before[NthOf(KeptAt(lastPass.script,
                                 lastPass.before, lastPass.topics), k)],
                             lastPass.topics)]
      /\ \A i \in DOMAIN lastPass.before :
           i \notin KeptAt(lastPass.script, lastPass.before, lastPass.topics)
             => \A k \in DOMAIN leadsFile :
                  leadsFile[k].linkedinUrl # lastPass.before[i].linkedinUrl

\* C17: after any sequence of re-validation passes, every lead that some
\* pass took out of the primary collection is in the removed-leads file.
C17_RemovedNeverLost == removedEver \subseteq Range(removedFile)

\* the queries the run set out to issue, in order
QueriesOf(batches) == [i \in DOMAIN batches |-> batches[i].query]

\* C21: a search failure that is neither a quota nor a blocked error does not
\* end the run: the loop goes on to the pacing delay or, after the last
\* query, to the save, with the leads captured so far kept; a run that no
\* quota or blocked error stopped has issued every query of its budget in
\* order and has persisted the loaded leads followed by all it captured.
C21_GenericFailureGoesOn ==
    /\ [][(pc = "inflight" /\ failedGeneric' # failedGeneric) =>
            /\ pc' = AfterQuery
            /\ newLeads' = newLeads]_vars
    /\ []((pc = "idle" /\ ~stopped) =>
            /\ issued = QueriesOf(queriesToRun)
            /\ leadsFile = existingLeads \o newLeads)

\* a finished run of two queries whose first search failed with a generic
\* error and whose second one produced leads
C21_Witness ==
    /\ pc = "idle" /\ ~stopped
    /\ Len(issued) = 2
    /\ issued[1] \in failedGeneric /\ issued[2] \in succeeded
    /\ issued[1] # issued[2]
    /\ Len(newLeads) > 0 /\ leadsFile = existingLeads \o newLeads

\* C22: an orchestrator run never removes, reorders or modifies a lead of
\* the persisted collection: every write of leads.json keeps the leads that
\* were there, in their order, at the front, and what a finished run has
\* persisted is the loaded collection followed by the leads the run captured,
\* in capture order.
C22_LoadedLeadsKept ==
    /\ [][/\ Len(leadsFile) <= Len(leadsFile')
          /\ SubSeq(leadsFile', 1, Len(leadsFile)) = leadsFile]_vars
    /\ [][(pc = "save" /\ pc' = "idle") =>
            /\ SubSeq(leadsFile', 1, Len(existingLeads)) = existingLeads
            /\ SubSeq(leadsFile', Len(existingLeads) + 1, Len(leadsFile'))
                 = newLeads]_vars
    /\ [](pc = "idle" => leadsFile = firstSeen)

\* a second run that loaded leads and captured new ones has saved
C22_Witness ==
    /\ pc = "idle" /\ runNo = 2
    /\ Len(existingLeads) > 0 /\ Len(newLeads) > 0
    /\ Len(leadsFile) = Len(existingLeads) + Len(newLeads)

\* C23: a run adds to the executed-query set only queries it made a search
\* call for, and removes none: the persisted set always holds the set loaded
\* at the start of the run and, beyond it, only queries the run issued; no
\* write of the file drops a member.
C23_LedgerOnlyIssued ==
    /\ [](/\ loadedExecuted \subseteq executedFile
          /\ loadedExecuted \subseteq executedQueries
          /\ executedFile \subseteq loadedExecuted \cup Range(issued)
          /\ executedQueries \subseteq loadedExecuted \cup Range(issued))
    /\ [][executedFile \subseteq executedFile']_vars

\* a first run has saved its ledger while a query it generated beyond the
\* budget, never issued, stays unmarked
C23_Witness ==
    /\ pc = "idle" /\ runNo = 1
    /\ Len(queries) > Len(queriesToRun)
    /\ Len(issued) = Len(queriesToRun)
    /\ executedFile # {}
    /\ \E i \in DOMAIN queries :
         queries[i].query \notin Range(issued) /\ queries[i].query \notin executedFile

\* C24: for every target and every topic list the orchestrator builds two
\* query variants, each from one batch of the topic list, where the two
\* batches are disjoint and together hold every keyword of the list exactly
\* once: the list is the first batch followed by the second.  Read off a run
\* that loaded an empty executed-query set, which keeps every variant built.
C24_BatchesPartitionTopics ==
    (runNo >= 1 /\ loadedExecuted = {}
       /\ config.companies # None /\ config.keywords # None) =>
      /\ Len(queries) = 2 * Len(config.companies[1])
      /\ \A c \in DOMAIN config.companies[1] :
           \E k \in 0..Len(config.keywords[1].topics) :
             /\ queries[2 * c - 1].query =
                  buildQuery(config.companies[1][c].name,
                             SubSeq(config.keywords[1].topics, 1, k),
                             config.keywords[1].exclusions)
             /\ queries[2 * c].query =
                  buildQuery(config.companies[1][c].name,
                             SubSeq(config.keywords[1].topics, k + 1,
                                    Len(config.keywords[1].topics)),
                             config.keywords[1].exclusions)

\* a run has built the variants of a four-keyword list for two targets
C24_Witness ==
    /\ runNo = 1 /\ pc = "search"
    /\ config.companies # None /\ config.keywords # None
    /\ Len(config.keywords[1].topics) = 4
    /\ Len(queries) = 4
    /\ queries[1].query # queries[2].query

\* a text with no whitespace at either end, no two whitespace characters in
\* a row and no two dots in a row
Normalized(text) ==
    /\ Len(text) > 0 => text[1] \notin WhiteSpace /\ text[Len(text)] \notin WhiteSpace
    /\ \A i \in 1..(Len(text) - 1) :
         /\ ~(text[i] \in WhiteSpace /\ text[i + 1] \in WhiteSpace)
         /\ ~(text[i] = "." /\ text[i + 1] = ".")

\* C25: the name, the role and the company of every lead the parser returns
\* have no leading or trailing whitespace, no run of two or more whitespace
\* characters and no run of two or more dots.
C25_FieldsNormalized ==
    (pc = "parsed" /\ parseOutput # None) =>
      /\ Normalized(parseOutput[1].name)
      /\ Normalized(parseOutput[1].role)
      /\ Normalized(parseOutput[1].company)

(***************************************************************************)
(* The scraper provider: scrapeWithRetry(query, maxRetries) called once    *)
(* for each query by the loop of main, or once on its own                  *)
(***************************************************************************)
\* maxRetries: number = 2
DefaultMaxRetries == 2

\* the largest maxRetries of a call made on its own
MaxScrapeRetries == 3

\* the most queries the loop of main has to run
MaxScrapeQueries == 2

\* String(error) of an attempt that found the CAPTCHA page
ErrCaptcha == <<"E", "r", "r", "o", "r", ":", " ", "S", "c", "r", "a", "p", "i", "n", "g", " ", "f", "a", "i", "l", "e", "d", ":", " ", "E", "r", "r", "o", "r", ":", " ", "G", "o", "o", "g", "l", "e", " ", "C", "A", "P", "T", "C", "H", "A", " ", "d", "e", "t", "e", "c", "t", "e", "d", " ", "-", " ", "t", "r", "y", " ", "a", "g", "a", "i", "n", " ", "l", "a", "t", "e", "r", " ", "o", "r", " ", "u", "s", "e", " ", "a", " ", "V", "P", "N">>

\* String(error) of an attempt that failed otherwise
ErrTimeout == <<"E", "r", "r", "o", "r", ":", " ", "S", "c", "r", "a", "p", "i", "n", "g", " ", "f", "a", "i", "l", "e", "d", ":", " ", "T", "i", "m", "e", "o", "u", "t", "E", "r", "r", "o", "r", ":", " ", "N", "a", "v", "i", "g", "a", "t", "i", "o", "n", " ", "t", "i", "m", "e", "o", "u", "t">>

\* new Error('Scraping failed after retries')
ErrNoAttempt == <<"E", "r", "r", "o", "r", ":", " ", "S", "c", "r", "a", "p", "i", "n", "g", " ", "f", "a", "i", "l", "e", "d", " ", "a", "f", "t", "e", "r", " ", "r", "e", "t", "r", "i", "e", "s">>

AttemptErrors == {ErrCaptcha, ErrTimeout}

\* main calls scrapeWithRetry(query) for each of its queries; a call on its
\* own passes any maxRetries
ScrapeInit ==
    /\ config = [companies |-> None, keywords |-> None]
    /\ OrchIdle
    /\ ParseIdle
    /\ MatcherIdle
    /\ BuilderIdle
    /\ CleanupIdle
    /\ pc = "scrape"
    /\ \E n \in 0..MaxScrapeRetries, m \in 1..MaxScrapeQueries :
         /\ m > 1 => n = DefaultMaxRetries
         /\ scraper = [NoScrape EXCEPT !.maxRetries = n, !.pending = m]

ScrapeFrame == UNCHANGED <<orchVars, parseVars, matcherInput, matchedBy,
                           builderInput, builderOutput, removedFile, lastPass,
                           removedEver>>

\* let lastError = null; for (let attempt = 1; attempt <= maxRetries; ...):
\* with no attempt to make, throw lastError || new Error(...)
ScrapeCall ==
    /\ scraper.at = "idle"
    /\ scraper.pending > 0
    /\ scraper' =
         [scraper EXCEPT
            !.pending = @ - 1,
            !.attempt = 1,
            !.lastError = None,
            !.thrown = IF 1 <= scraper.maxRetries THEN None
                       ELSE Some(ErrNoAttempt),
            !.response = None,
            !.callStart = Len(scraper.events),
            !.at = IF 1 <= scraper.maxRetries THEN "attempt" ELSE "thrown"]
    /\ ScrapeFrame

\* return await scrapeGoogleSearch(query)
AttemptReturns(items) ==
    /\ scraper.at = "attempt"
    /\ scraper' =
         [scraper EXCEPT
            !.events = Append(@, [kind |-> "ok", error |-> None]),
            !.response = Some(items),
            !.at = "returned"]
    /\ ScrapeFrame

\* the catch block of scrapeWithRetry without the wait before the next attempt
AttemptThrowsNoWait(error) ==
    /\ scraper.at = "attempt"
    /\ scraper' =
         [scraper EXCEPT
            !.events = Append(@, [kind |-> "fail", error |-> Some(error)]),
            !.lastError = Some(error),
            !.blocked = @ \/ error = ErrCaptcha,
            !.attempt = @ + 1,
            !.thrown = IF scraper.attempt < scraper.maxRetries
                       THEN None ELSE Some(error),
            !.at = IF scraper.attempt < scraper.maxRetries
                   THEN "attempt" ELSE "thrown"]
    /\ ScrapeFrame

\* the catch block of scrapeWithRetry: lastError = error, and either the wait
\* before the next attempt or, after the last one, throw lastError
AttemptThrows(error) ==
    /\ scraper.at = "attempt"
    /\ scraper' =
         [scraper EXCEPT
            !.events = Append(@, [kind |-> "fail", error |-> Some(error)]),
            !.lastError = Some(error),
            !.blocked = @ \/ error = ErrCaptcha,
            !.attempt = IF scraper.attempt < scraper.maxRetries
                        THEN @ ELSE @ + 1,
            !.thrown = IF scraper.attempt < scraper.maxRetries
                       THEN None ELSE Some(error),
            !.at = IF scraper.attempt < scraper.maxRetries
                   THEN "wait" ELSE "thrown"]
    /\ ScrapeFrame

\* await new Promise((resolve) => setTimeout(resolve, waitTime)); attempt++
Backoff ==
    /\ scraper.at = "wait"
    /\ scraper' =
         [scraper EXCEPT
            !.events = Append(@, [kind |-> "wait", error |-> None]),
            !.attempt = @ + 1,
            !.at = "attempt"]
    /\ ScrapeFrame

\* the caller has the response: main goes on with its next query
CallerGetsResponse ==
    /\ scraper.at = "returned"
    /\ scraper' = [scraper EXCEPT !.at = "idle"]
    /\ ScrapeFrame

\* the caller has the error: the catch block of main breaks on a quota or
\* blocked error and goes on with its next query otherwise
CallerCatches ==
    /\ scraper.at = "thrown"
    /\ scraper' =
         [scraper EXCEPT
            !.pending = IF \/ IsQuotaError(scraper.thrown[1])
                           \/ IsBlockedError(scraper.thrown[1])
                        THEN 0 ELSE @,
            !.at = "idle"]
    /\ ScrapeFrame

ScrapeNext ==
    \/ ScrapeCall
    \/ \E items \in Responses : AttemptReturns(items)
    \/ \E error \in AttemptErrors : AttemptThrows(error)
    \/ Backoff
    \/ CallerGetsResponse
    \/ CallerCatches

\* every attempt ends (each of its waits has a timeout), every timer fires
SpecScrape == ScrapeInit /\ [][ScrapeNext]_vars /\ WF_vars(ScrapeNext)

\* what the current call has done so far
CallEvents == SubSeq(scraper.events, scraper.callStart + 1, Len(scraper.events))

\* the requests the current call has sent
CallAttempts == SelectSeq(CallEvents, LAMBDA e : e.kind # "wait")

\* C26: scrapeWithRetry(query, maxRetries) makes at most maxRetries attempts
\* and ends: a call that returned made failed attempts, each followed by a
\* wait, and then the successful one, whose response it returns; a call that
\* threw made maxRetries failed attempts with a wait between two of them and
\* none after the last, and throws the error of the last; nothing more is
\* attempted once it has returned or thrown; every call returns or throws.
C26_RetryBounded ==
    /\ [](Len(CallAttempts) <= scraper.maxRetries)
    /\ [](scraper.at = "returned" =>
            /\ \A i \in DOMAIN CallEvents :
                 CallEvents[i].kind =
                   IF i = Len(CallEvents) THEN "ok"
                   ELSE IF i % 2 = 1 THEN "fail" ELSE "wait"
            /\ Len(CallEvents) % 2 = 1
            /\ scraper.response # None)
    /\ [](scraper.at = "thrown" =>
            /\ \A i \in DOMAIN CallEvents :
                 CallEvents[i].kind = IF i % 2 = 1 THEN "fail" ELSE "wait"
            /\ Len(CallAttempts) = scraper.maxRetries
            /\ Len(CallEvents) > 0 =>
                 /\ CallEvents[Len(CallEvents)].kind = "fail"
                 /\ scraper.thrown = CallEvents[Len(CallEvents)].error)
    /\ [][scraper.at \in {"returned", "thrown"} =>
            scraper'.events = scraper.events]_vars
    /\ [](scraper.at \in {"attempt", "wait"} =>
            <>(scraper.at \in {"returned", "thrown"}))

\* a call with maxRetries 3 has thrown after three failed attempts, the
\* first on a CAPTCHA page and the last on a timeout
C26_Witness ==
    /\ scraper.at = "thrown" /\ scraper.maxRetries = 3
    /\ Len(CallAttempts) = 3 /\ Len(CallEvents) = 5
    /\ CallEvents[1].error = Some(ErrCaptcha)
    /\ scraper.thrown = Some(ErrTimeout)

\* C30: with the scraper provider, once an attempt has found the CAPTCHA /
\* unusual-traffic page no further request is sent during the run, neither
\* a retry of the query nor a later query.
C30_NoRequestAfterCaptcha ==
    [][scraper.blocked =>
         Len(SelectSeq(scraper'.events, LAMBDA e : e.kind # "wait"))
           = Len(SelectSeq(scraper.events, LAMBDA e : e.kind # "wait"))]_vars

\* C27: within one run no query string is passed to the search call more
\* than once.
C27_NoQueryIssuedTwice ==
    \A i, j \in DOMAIN issued : i # j => issued[i] # issued[j]

\* C28: every lead a run adds carries as queryUsed the query whose response
\* produced it, the one search call in flight when it was captured, and that
\* query is marked executed in the same step; at the end of the run the
\* queryUsed of each newly persisted lead is a query the run issued and is in
\* the executed-query set the run persisted.
C28_NewLeadsCarryExecutedQuery ==
    /\ [][pc = "inflight" =>
            \A i \in (Len(newLeads) + 1)..Len(newLeads') :
              /\ newLeads'[i].queryUsed = issued[Len(issued)]
              /\ newLeads'[i].linkedinUrl \notin existingUrls
              /\ issued[Len(issued)] \in executedQueries']_vars
    /\ []((pc = "idle" /\ runNo > 0) =>
            \A i \in (Len(existingLeads) + 1)..Len(leadsFile) :
              /\ leadsFile[i].queryUsed \in Range(issued)
              /\ leadsFile[i].queryUsed \in executedFile)

\* a finished run whose second query, different from the first, produced a
\* lead that is now persisted
C28_Witness ==
    /\ pc = "idle" /\ Len(issued) = 2 /\ issued[1] # issued[2]
    /\ Len(leadsFile) > Len(existingLeads)
    /\ leadsFile[Len(leadsFile)].queryUsed = issued[2]
    /\ issued[2] \in executedFile

(***************************************************************************)
(* Orchestrator runs followed by cleanup passes, the keyword file left as  *)
(* it is: every lead of leads.json passed the strict filter of the parser  *)
(* against the topic list the pass reads                                   *)
(***************************************************************************)
RevalidateNext == Next \/ CleanupRemove \/ CleanupFlag

SpecRevalidate == Init /\ [][RevalidateNext]_vars

\* C29: with an unchanged topic list, a batch re-validation pass keeps every
\* lead that the strict filter of the parser accepted: each lead that was in
\* the collection before the pass is in it after the pass, with a non-empty
\* recomputed matchedTopics.
C29_RevalidationRemovesNothing ==
    [][lastPass' # lastPass =>
         \A i \in DOMAIN leadsFile :
           \E k \in DOMAIN leadsFile' :
             /\ leadsFile'[k].linkedinUrl = leadsFile[i].linkedinUrl
             /\ leadsFile'[k].matchedTopics # << >>]_vars

=============================================================================
